---- MODULE Spec2Model ----
(***************************************************************************)
(* Model of the Adventure Outfitters customer service agent: the order     *)
(* status slot-filling dialogue (OrderStatusAgent over a StateManager) and *)
(* the bounded ConversationMemory.                                         *)
(*                                                                         *)
(* Text is modelled as TLA+ strings; the regular expressions and string    *)
(* methods of the source are computed character by character.  The brand   *)
(* emoji of the reply texts are not ASCII and are left out of the string   *)
(* literals; every other character of a reply is the source's.             *)
(***************************************************************************)
EXTENDS Naturals, Sequences, FiniteSets, TLC

(***************************************************************************)
(* Python values                                                           *)
(***************************************************************************)

\* Python's None, as a value no extracted or typed text can equal.
None == "<None>"

\* bool(v) as a test for None only, which takes "" for a value.
Truthy_of_any_string(v) == v # None

\* bool(v) of an optional string: None and "" are falsy.
Truthy(v) == v # None /\ v # ""

\* Python's "a or b".
Or_preferring_second(a, b) == IF Truthy(b) THEN b ELSE a

Or(a, b) == IF Truthy(a) THEN a ELSE b

SetMax(S) == CHOOSE m \in S : \A n \in S : n <= m

SetMin(S) == CHOOSE m \in S : \A n \in S : m <= n

(***************************************************************************)
(* Characters and the string methods the source uses                       *)
(***************************************************************************)

UpperChars == "ABCDEFGHIJKLMNOPQRSTUVWXYZ"

LowerChars == "abcdefghijklmnopqrstuvwxyz"

\* The characters of a string, as a set of one-character strings.
CharsOf(s) == {SubSeq(s, i, i) : i \in 1..Len(s)}

Upper == CharsOf(UpperChars)

Lower == CharsOf(LowerChars)

Letters == Upper \cup Lower

Digits == CharsOf("0123456789")

\* \w of Python's re, on ASCII text.
WordChars == Letters \cup Digits \cup {"_"}

\* str.isspace(), on ASCII text.
Whitespace == {" ", "\t", "\n", "\r"}

\* s[i-1] of Python (positions are 1-based here); "" outside the string.
At(s, i) == IF i >= 1 /\ i <= Len(s) THEN SubSeq(s, i, i) ELSE ""

\* "sub in s".
Contains(s, sub) ==
    \E i \in 1..(Len(s) + 1) :
        i + Len(sub) - 1 <= Len(s) /\ SubSeq(s, i, i + Len(sub) - 1) = sub

IndexIn(alphabet, c) == CHOOSE i \in 1..Len(alphabet) : SubSeq(alphabet, i, i) = c

LowerChar(c) == IF c \in Upper THEN At(LowerChars, IndexIn(UpperChars, c)) ELSE c

UpperChar(c) == IF c \in Lower THEN At(UpperChars, IndexIn(LowerChars, c)) ELSE c

\* str.lower()
RECURSIVE StrLower(_)
StrLower(s) == IF s = "" THEN "" ELSE LowerChar(Head(s)) \o StrLower(Tail(s))

\* str.title(): a letter that follows a non-letter is upper-cased, the other
\* letters are lower-cased.
RECURSIVE TitleFrom(_, _)
TitleFrom(s, i) ==
    IF i > Len(s) THEN ""
    ELSE (IF At(s, i - 1) \in Letters THEN LowerChar(At(s, i)) ELSE UpperChar(At(s, i)))
         \o TitleFrom(s, i + 1)

StrTitle(s) == TitleFrom(s, 1)

\* sep.join(items)
RECURSIVE Join(_, _)
Join(sep, items) ==
    IF items = <<>> THEN ""
    ELSE IF Len(items) = 1 THEN items[1]
    ELSE items[1] \o sep \o Join(sep, Tail(items))

\* len(s.split()): the number of maximal runs of non-whitespace characters.
SplitCount(s) ==
    Cardinality({i \in 1..Len(s) :
        At(s, i) \notin Whitespace /\ (i = 1 \/ At(s, i - 1) \in Whitespace)})

\* s.strip().isdigit(): some character is left after stripping and every
\* character left is a digit.
StripIsDigit(s) ==
    LET kept == {i \in 1..Len(s) : At(s, i) \notin Whitespace}
    IN  /\ kept # {}
        /\ \A i \in SetMin(kept)..SetMax(kept) : At(s, i) \in Digits

\* any(char.isdigit() for char in s)
AnyDigit(s) == \E i \in 1..Len(s) : At(s, i) \in Digits

(***************************************************************************)
(* Regular expression pieces                                               *)
(***************************************************************************)

\* The last position of the longest run of characters of class cls that
\* starts at position i (i - 1 when the run is empty): a greedy "cls*".
RECURSIVE RunEnd(_, _, _)
RunEnd(s, i, cls) ==
    IF i <= Len(s) /\ At(s, i) \in cls THEN RunEnd(s, i + 1, cls) ELSE i - 1

\* \b between positions p and p + 1 (p = 0: start, p = Len(s): end).
Boundary(s, p) == (At(s, p) \in WordChars) # (At(s, p + 1) \in WordChars)

\* [A-Za-z0-9._%+-]
EmailLocalChars == Letters \cup Digits \cup {".", "_", "%", "+", "-"}

\* [A-Za-z0-9.-]
EmailDomainChars == Letters \cup Digits \cup {".", "-"}

\* [A-Z|a-z]
EmailTldChars == Letters \cup {"|"}

\* "[A-Z|a-z]{2,}\b" from position j: the end of the longest run of at least
\* two characters that ends at a word boundary, 0 when there is none.
TldEnd(s, j) ==
    LET ends == {e \in (j + 1)..RunEnd(s, j, EmailTldChars) : Boundary(s, e)}
    IN  IF ends = {} THEN 0 ELSE SetMax(ends)

\* The end of the match of the email pattern that starts at position i, 0
\* when none starts there.  The local part runs up to the "@"; the domain
\* is taken as long as possible (backtracking to the last "." that a
\* top-level part follows).
EmailEndAt(s, i) ==
    LET at == RunEnd(s, i, EmailLocalChars) + 1
        domEnds == {d \in (at + 1)..RunEnd(s, at + 1, EmailDomainChars) :
                       At(s, d + 1) = "." /\ TldEnd(s, d + 2) > 0}
    IN  IF /\ Boundary(s, i - 1)
           /\ at > i
           /\ At(s, at) = "@"
           /\ domEnds # {}
        THEN TldEnd(s, SetMax(domEnds) + 2)
        ELSE 0

(***************************************************************************)
(* OrderStatusAgent: extraction from the query text                        *)
(***************************************************************************)

\* extract_email_from_text: re.search returns the leftmost match.
extract_email_from_text(text) ==
    LET starts == {i \in 1..Len(text) : EmailEndAt(text, i) > 0}
    IN  IF starts = {} THEN None
        ELSE SubSeq(text, SetMin(starts), EmailEndAt(text, SetMin(starts)))

\* "#W\d+": the end of the match starting at i, 0 when none starts there.
HashOrderEndAt(s, i) ==
    IF At(s, i) = "#" /\ At(s, i + 1) = "W" /\ At(s, i + 2) \in Digits
    THEN RunEnd(s, i + 2, Digits)
    ELSE 0

\* "\bW\d+\b": the end of the match starting at i, 0 when none starts there.
BareOrderEndAt(s, i) ==
    LET ends == {e \in (i + 1)..RunEnd(s, i + 1, Digits) : Boundary(s, e)}
    IN  IF Boundary(s, i - 1) /\ At(s, i) = "W" /\ ends # {}
        THEN SetMax(ends)
        ELSE 0

\* extract_order_number_from_text: "#W001" as written, "W001" with the "#"
\* put in front, None otherwise.
extract_order_number_from_text(text) ==
    LET hashed == {i \in 1..Len(text) : HashOrderEndAt(text, i) > 0}
        bare   == {i \in 1..Len(text) : BareOrderEndAt(text, i) > 0}
    IN  IF hashed # {}
        THEN SubSeq(text, SetMin(hashed), HashOrderEndAt(text, SetMin(hashed)))
        ELSE IF bare # {}
        THEN "#" \o SubSeq(text, SetMin(bare), BareOrderEndAt(text, SetMin(bare)))
        ELSE None

(***************************************************************************)
(* StateManager                                                            *)
(***************************************************************************)

\* StateManager.__init__: _state is an empty ordered mapping (a sequence of
\* key/value entries in insertion order), _state_md is None.
StateManager_init == [state |-> <<>>, state_md |-> None]

\* The keys of the ordered mapping.
StateKeys(sm) == {sm.state[i].key : i \in 1..Len(sm.state)}

\* OrderedDict.__setitem__: a key already present keeps its place.
SetItem_appending(entries, key, value) ==
    Append(entries, [key |-> key, value |-> value])

\* OrderedDict.__setitem__: the value of a key that is there is replaced in
\* its place, a new key goes to the end.
SetItem(entries, key, value) ==
    IF \E i \in 1..Len(entries) : entries[i].key = key
    THEN [i \in 1..Len(entries) |->
             IF entries[i].key = key THEN [key |-> key, value |-> value] ELSE entries[i]]
    ELSE Append(entries, [key |-> key, value |-> value])

\* StateManager.to_markdown, for values that are not dictionaries.
RECURSIVE to_markdown(_)
to_markdown(entries) ==
    IF entries = <<>> THEN ""
    ELSE "### " \o entries[1].key \o "\n" \o "\n" \o entries[1].value \o "\n" \o "\n"
         \o to_markdown(Tail(entries))

\* StateManager.add_entry raises ValueError for an empty or None key.
add_entry_raises(key) == ~Truthy(key)

\* StateManager.add_entry: the state it leaves (unchanged when it raises).
add_entry(sm, key, value) ==
    IF add_entry_raises(key) THEN sm
    ELSE LET entries == SetItem(sm.state, key, value)
         IN  [state |-> entries, state_md |-> to_markdown(entries)]

\* StateManager.get_value: dict.get(key), None when the key is absent.
get_value(sm, key) ==
    IF key \in StateKeys(sm)
    THEN sm.state[CHOOSE i \in 1..Len(sm.state) : sm.state[i].key = key].value
    ELSE None

\* StateManager.clear_state
clear_state(sm) == [state |-> <<>>, state_md |-> None]

(***************************************************************************)
(* OrderStatusAgent: the order records and the lookup                      *)
(***************************************************************************)

\* self.name of the agent the pipeline builds, and the coordinator's name.
AgentName == "OrderStatusAgent"

CoordinatorName == "AdventureOutfittersAgent"

\* self.orders_data: the records of data/customer_orders.json that the
\* conversation-flow tests look up.
orders_data ==
    << [Email |-> "john.doe@example.com", OrderNumber |-> "#W001",
        Status |-> "delivered", TrackingNumber |-> "TRK123456789",
        CustomerName |-> "John Doe", ProductsOrdered |-> <<"SOBP001", "SOWB004">>],
       [Email |-> "ethan.harris@example.com", OrderNumber |-> "#W007",
        Status |-> "fulfilled", TrackingNumber |-> None,
        CustomerName |-> "Ethan Harris", ProductsOrdered |-> <<"SOBP001", "SOSB006">>] >>

\* find_order: the index in orders_data of the first record whose Email is
\* the given one up to letter case and whose OrderNumber is the given one;
\* 0 stands for the None it returns when there is no such record.
find_order(email, order_number) ==
    LET hits == {i \in 1..Len(orders_data) :
                    /\ StrLower(orders_data[i].Email) = StrLower(email)
                    /\ orders_data[i].OrderNumber = order_number}
    IN  IF hits = {} THEN 0 ELSE SetMin(hits)

\* Message(content, sender=self.name, recipient="AdventureOutfittersAgent")
Message(content) ==
    [content |-> content, sender |-> AgentName, recipient |-> CoordinatorName]

(***************************************************************************)
(* OrderStatusAgent: the replies                                           *)
(***************************************************************************)

\* The grave accent, taken out of a string that also closes it: the parser
\* pairs a lone grave accent with a later apostrophe.
Backtick == SubSeq("`'", 1, 1)

\* not_found_msg as a reply that echoes the order number only.
not_found_msg_without_email(email, order_number) ==
    " I couldn't find order **" \o order_number \o "** in our system. "
    \o "\n\nCould you double-check your order number? Our order numbers typically "
    \o "look like #W001, #W002, etc. You can also try a different email if you "
    \o "used multiple addresses.\n\nOnward into the unknown! "

not_found_msg(email, order_number) ==
    " I couldn't find order **" \o order_number \o "** for " \o Backtick \o email
    \o Backtick \o " in our system. "
    \o "\n\nCould you double-check your order number? Our order numbers typically "
    \o "look like #W001, #W002, etc. You can also try a different email if you "
    \o "used multiple addresses.\n\nOnward into the unknown! "

\* The status text built for a record that was found.
status_message(order, email, order_number) ==
    " Hello " \o order.CustomerName \o "! Here's your order status:\n\n"
    \o " Order: " \o order_number \o "\n"
    \o " Email: " \o email \o "\n"
    \o " Products: " \o Join(", ", order.ProductsOrdered) \o "\n"
    \o " Status: " \o StrTitle(order.Status) \o "\n"
    \o (IF Truthy(order.TrackingNumber)
        THEN " Tracking: " \o order.TrackingNumber
             \o "\n Track your package: "
             \o "https://tools.usps.com/go/TrackConfirmAction?tLabels="
             \o order.TrackingNumber
        ELSE "")
    \o "\n\n Thanks for choosing Adventure Outfitters! Onward into the unknown! "

email_msg(email) ==
    " Got it! I have your email: " \o email \o ". Now I need "
    \o "your order number (like #W001, #W002, etc.) to find your gear! "

order_msg(order_number) ==
    " Perfect! I have your order number: " \o order_number \o ". "
    \o "Now I need the email address associated with this order. "

\* invalid_order_msg as a reply that forgets the stored email.
invalid_order_msg_without_email(stored_email) ==
    " That doesn't look like "
    \o "one of our order numbers. Our order numbers start with 'W' and look "
    \o "like #W001, #W002, etc. Could you check your order confirmation email "
    \o "for the correct format? "

invalid_order_msg(stored_email) ==
    " I have your email (" \o stored_email \o ") but that doesn't look like "
    \o "one of our order numbers. Our order numbers start with 'W' and look "
    \o "like #W001, #W002, etc. Could you check your order confirmation email "
    \o "for the correct format? "

email_needed_msg(stored_order) ==
    " I have your order number (" \o stored_order \o ") but I need a valid "
    \o "email address to look up your order. Could you provide the email "
    \o "you used when placing the order? "

instructions_msg ==
    " To check your order status, I need your email address and order "
    \o "number. You can say something like: 'Check order #W001 for "
    \o "john.doe@example.com' "

missing_email_msg(final_order) ==
    " I have your order number (" \o final_order \o ") but I still need "
    \o "your email address. What email did you use for this order? "

missing_order_msg(final_email) ==
    " I have your email (" \o final_email \o ") but I still need your "
    \o "order number. What's your order number? "

(***************************************************************************)
(* The inputs of a turn                                                    *)
(***************************************************************************)

\* The customer's query texts: bare emails, order numbers with and without
\* "#", a number that is no order number, texts with neither, and texts
\* that hold an email or both among other words.
Queries ==
    {"ethan.harris@example.com", "john.doe@example.com", "#W007", "W001",
     "#W999", "677623", "order", "not-an-email",
     "my email is ethan.harris@example.com",
     "Check order #W001 for john.doe@example.com"}

\* The customer's query texts of a session with the coordinator: a bare
\* email, an order with its email, a follow-up question about products.
SessionQueries ==
    {"ethan.harris@example.com", "Check order #W001 for john.doe@example.com",
     "what are those products?"}

\* The queries get_contextual_info is asked with: one that refers to the
\* products and the order of earlier turns, one that refers to the order
\* only, one that refers to the products only, one that refers to nothing.
ContextQueries ==
    {"what are those products?", "What about MY ORDER", "more details please",
     "hello"}

\* The customer's query texts that write an email and an order number in
\* another letter case, or the order number without "#".
LookupQueries ==
    {"Check order #w001 for JOHN.DOE@EXAMPLE.COM",
     "Check order #W001 for JOHN.DOE@EXAMPLE.COM",
     "JOHN.DOE@EXAMPLE.COM", "#w001", "W001", "order"}

\* The entities of such turns: the model's JSON holds the values as the
\* customer wrote them.
LookupEntities ==
    [Email : {None, "John.Doe@Example.com"},
     OrderNumber : {None, "W001", "#w001"}]

\* The entities the coordinator's model call may pass in the metadata: each
\* of Email and OrderNumber absent, empty or a value the model made up,
\* well-formed or not.
EntityInputs ==
    [Email : {None, "", "ethan.harris@example.com"},
     OrderNumber : {None, "#W007", "677623"}]

\* What extract_order_info may return: (None, None) on failure, else what
\* the model's JSON holds under "email" and "order_number".
ExtractionResults ==
    [email : {None, "john.doe@example.com"},
     order_number : {None, "#W001", "12345"}]

\* extract_order_info when its model call failed: (None, None).
NoExtraction == [email |-> None, order_number |-> None]

\* extract_order_info in a turn whose JSON holds the values as the customer
\* wrote them.
LookupExtractions ==
    {NoExtraction, [email |-> "JOHN.DOE@EXAMPLE.COM", order_number |-> "W001"]}

\* self.extract_email_from_text(query), for the queries of the model.
EmailInText == [q \in Queries \cup SessionQueries \cup ContextQueries \cup LookupQueries |-> extract_email_from_text(q)]

\* self.extract_order_number_from_text(query), for the queries of the model.
OrderInText == [q \in Queries \cup SessionQueries \cup ContextQueries \cup LookupQueries |-> extract_order_number_from_text(q)]

(***************************************************************************)
(* OrderStatusAgent: one turn                                              *)
(***************************************************************************)

\* What one call of process did: the StateManager it leaves, the Message it
\* returns, which reply that is, the find_order calls it made, whether it
\* called clear_state, how often it called extract_order_info, and the
\* email and order number it resolved for the turn.
TurnResult(sm, content, reply, lookups, cleared, calls, email, order_number) ==
    [state_manager |-> sm, response |-> Message(content), reply |-> reply,
     lookups |-> lookups, cleared |-> cleared, extraction_calls |-> calls,
     email_from_current |-> email, order_from_current |-> order_number]

\* _generate_order_response with clear_state called ahead of the lookup, so
\* that a lookup that finds nothing has emptied the state too.
generate_order_response_clearing_first(sm, email, order_number) ==
    LET order == find_order(email, order_number)
        call  == [email |-> email, order_number |-> order_number, order |-> order]
    IN  IF order = 0
        THEN [state_manager |-> clear_state(sm),
              content |-> not_found_msg(email, order_number),
              reply |-> "not_found", lookups |-> <<call>>, cleared |-> TRUE]
        ELSE [state_manager |-> clear_state(sm),
              content |-> status_message(orders_data[order], email, order_number),
              reply |-> "found", lookups |-> <<call>>, cleared |-> TRUE]

\* _generate_order_response: the lookup, the not-found reply with the state
\* left as it is, or clear_state and the status reply.
_generate_order_response(sm, email, order_number) ==
    LET order == find_order(email, order_number)
        call  == [email |-> email, order_number |-> order_number, order |-> order]
    IN  IF order = 0
        THEN [state_manager |-> sm,
              content |-> not_found_msg(email, order_number),
              reply |-> "not_found", lookups |-> <<call>>, cleared |-> FALSE]
        ELSE [state_manager |-> clear_state(sm),
              content |-> status_message(orders_data[order], email, order_number),
              reply |-> "found", lookups |-> <<call>>, cleared |-> TRUE]

\* Completion as a turn that looks up what this turn resolved and ignores
\* the values taken from the state.
Completion_ignoring_stored(sm, email, order_number, calls, email_from_current, order_from_current) ==
    LET g == _generate_order_response(sm, email_from_current, order_from_current)
    IN  TurnResult(g.state_manager, g.content, g.reply, g.lookups, g.cleared,
                   calls, email_from_current, order_from_current)

\* Completion as a turn that looks up the stored email and order number
\* where there are any, and the values of the call only otherwise.
Completion_preferring_stored(sm, email, order_number, calls, email_from_current, order_from_current) ==
    LET g == _generate_order_response(sm, Or(get_value(sm, "email"), email),
                                      Or(get_value(sm, "order_number"), order_number))
    IN  TurnResult(g.state_manager, g.content, g.reply, g.lookups, g.cleared,
                   calls, email_from_current, order_from_current)

\* Completion as a turn that keeps what it looked up when no order is
\* found: it stores the email and the order number for the next turn.
Completion_storing_both(sm, email, order_number, calls, email_from_current, order_from_current) ==
    LET g == _generate_order_response(sm, email, order_number)
    IN  TurnResult(IF g.cleared THEN g.state_manager
                   ELSE add_entry(add_entry(sm, "email", email),
                                  "order_number", order_number),
                   g.content, g.reply, g.lookups, g.cleared,
                   calls, email_from_current, order_from_current)

\* A turn that ends in "return self._generate_order_response(...)".
Completion(sm, email, order_number, calls, email_from_current, order_from_current) ==
    LET g == _generate_order_response(sm, email, order_number)
    IN  TurnResult(g.state_manager, g.content, g.reply, g.lookups, g.cleared,
                   calls, email_from_current, order_from_current)

\* invalid_order_turn as the turn that starts the flow over: it drops what
\* was stored.
invalid_order_turn_discarding(sm, stored_email, email_from_current, order_from_current) ==
    TurnResult(clear_state(sm), invalid_order_msg(stored_email), "invalid_order",
               <<>>, FALSE, 0, email_from_current, order_from_current)

\* The turn of process that answers a text with a digit in it, which holds
\* neither an email nor an order number, while an email is stored: the
\* format reply, the state left as it is.
invalid_order_turn(sm, stored_email, email_from_current, order_from_current) ==
    TurnResult(sm, invalid_order_msg(stored_email), "invalid_order", <<>>,
               FALSE, 0, email_from_current, order_from_current)

\* process_fallback as a tail that starts the dialogue over when it cannot
\* complete: it asks as process_fallback does and empties the state.
process_fallback_starting_over(sm, email_from_current, order_from_current, stored_email, stored_order, extraction) ==
    LET consult == ~Truthy(email_from_current) /\ ~Truthy(order_from_current)
        calls == IF consult THEN 1 ELSE 0
        email == IF consult THEN Or(email_from_current, extraction.email)
                 ELSE email_from_current
        order_number == IF consult THEN Or(order_from_current, extraction.order_number)
                        ELSE order_from_current
        final_email == Or(email, stored_email)
        final_order == Or(order_number, stored_order)
    IN  IF Truthy(final_email) /\ Truthy(final_order)
        THEN Completion(sm, final_email, final_order, calls, email, order_number)
        ELSE IF ~Truthy(final_email) /\ ~Truthy(final_order)
        THEN TurnResult(clear_state(sm), instructions_msg, "instructions", <<>>, FALSE,
                        calls, email, order_number)
        ELSE IF ~Truthy(final_email)
        THEN TurnResult(clear_state(sm), missing_email_msg(final_order), "missing_email",
                        <<>>, FALSE, calls, email, order_number)
        ELSE TurnResult(clear_state(sm), missing_order_msg(final_email), "missing_order",
                        <<>>, FALSE, calls, email, order_number)

\* process_fallback as a tail that asks extract_order_info in every turn
\* that reaches it.
process_fallback_always_consulting(sm, email_from_current, order_from_current, stored_email, stored_order, extraction) ==
    LET email == Or(email_from_current, extraction.email)
        order_number == Or(order_from_current, extraction.order_number)
        final_email == Or(email, stored_email)
        final_order == Or(order_number, stored_order)
    IN  IF Truthy(final_email) /\ Truthy(final_order)
        THEN Completion(sm, final_email, final_order, 1, email, order_number)
        ELSE IF ~Truthy(final_email) /\ ~Truthy(final_order)
        THEN TurnResult(sm, instructions_msg, "instructions", <<>>, FALSE,
                        1, email, order_number)
        ELSE IF ~Truthy(final_email)
        THEN TurnResult(sm, missing_email_msg(final_order), "missing_email", <<>>,
                        FALSE, 1, email, order_number)
        ELSE TurnResult(sm, missing_order_msg(final_email), "missing_order", <<>>,
                        FALSE, 1, email, order_number)

\* The tail of process, from the free-form extraction on: extraction is what
\* extract_order_info returns when it is called ((None, None) when the model
\* call fails or its answer cannot be parsed).
process_fallback(sm, email_from_current, order_from_current, stored_email, stored_order, extraction) ==
    LET consult == ~Truthy(email_from_current) /\ ~Truthy(order_from_current)
        calls == IF consult THEN 1 ELSE 0
        email == IF consult THEN Or(email_from_current, extraction.email)
                 ELSE email_from_current
        order_number == IF consult THEN Or(order_from_current, extraction.order_number)
                        ELSE order_from_current
        final_email == Or(email, stored_email)
        final_order == Or(order_number, stored_order)
    IN  IF Truthy(final_email) /\ Truthy(final_order)
        THEN Completion(sm, final_email, final_order, calls, email, order_number)
        ELSE IF ~Truthy(final_email) /\ ~Truthy(final_order)
        THEN TurnResult(sm, instructions_msg, "instructions", <<>>, FALSE,
                        calls, email, order_number)
        ELSE IF ~Truthy(final_email)
        THEN TurnResult(sm, missing_email_msg(final_order), "missing_email", <<>>,
                        FALSE, calls, email, order_number)
        ELSE TurnResult(sm, missing_order_msg(final_email), "missing_order", <<>>,
                        FALSE, calls, email, order_number)

\* The entities of the metadata when the model's JSON holds
\* "entities": null: the None that message.metadata.get("entities", {})
\* returns then.  It is not a dict, so it has neither of the two keys.
NullEntities == [is_none |-> TRUE]

\* The reply of the except clause of process.
lookup_error_msg ==
    " I encountered an issue while looking up your order. Please try "
    \o "again or contact our support team. Onward into the unknown! "

\* OrderStatusAgent.process.  entities is the coordinator's metadata
\* (entities.get(k) is None for a key that is absent).  entities.get raises
\* when entities is None: the except clause replies, and nothing was done
\* before.  With entities that are optional strings and the records of
\* orders_data no other statement of the method raises.
process(sm, query, entities, extraction) ==
    IF entities = NullEntities
    THEN TurnResult(sm, lookup_error_msg, "lookup_error", <<>>, FALSE, 0, None, None)
    ELSE
    LET email_from_entities == entities.Email
        order_from_entities == entities.OrderNumber
        email_from_text == EmailInText[query]
        order_from_text == OrderInText[query]
        email_from_current == Or(email_from_entities, email_from_text)
        order_from_current == Or(order_from_entities, order_from_text)
        stored_email == get_value(sm, "email")
        stored_order == get_value(sm, "order_number")
    IN  IF Truthy(email_from_current) /\ Truthy(order_from_current)
        THEN Completion(sm, email_from_current, order_from_current, 0,
                        email_from_current, order_from_current)
        ELSE IF Truthy(stored_email) /\ Truthy(order_from_current)
        THEN Completion(sm, stored_email, order_from_current, 0,
                        email_from_current, order_from_current)
        ELSE IF Truthy(stored_order) /\ Truthy(email_from_current)
        THEN Completion(sm, email_from_current, stored_order, 0,
                        email_from_current, order_from_current)
        ELSE IF /\ Truthy(email_from_current)
                /\ ~Truthy(order_from_current)
                /\ Contains(query, "@")
                /\ SplitCount(query) = 1
        THEN TurnResult(add_entry(sm, "email", email_from_current),
                        email_msg(email_from_current), "stored_email", <<>>, FALSE,
                        0, email_from_current, order_from_current)
        ELSE IF Truthy(order_from_current) /\ ~Truthy(email_from_current)
        THEN TurnResult(add_entry(sm, "order_number", order_from_current),
                        order_msg(order_from_current), "stored_order", <<>>, FALSE,
                        0, email_from_current, order_from_current)
        ELSE IF /\ Truthy(stored_email)
                /\ ~Truthy(order_from_current)
                /\ ~Truthy(email_from_current)
                /\ (StripIsDigit(query) \/ AnyDigit(query))
        THEN invalid_order_turn(sm, stored_email, email_from_current,
                                order_from_current)
        ELSE IF /\ Truthy(stored_order)
                /\ ~Truthy(email_from_current)
                /\ ~Truthy(order_from_current)
        THEN TurnResult(sm, email_needed_msg(stored_order), "email_needed", <<>>,
                        FALSE, 0, email_from_current, order_from_current)
        ELSE process_fallback(sm, email_from_current, order_from_current,
                              stored_email, stored_order, extraction)

(***************************************************************************)
(* ConversationMemory                                                      *)
(***************************************************************************)

\* A Python dict with string keys is a function on the keys it holds; {} is
\* the function on no key.
EmptyDict == <<>>

\* d.get(key, default)
dict_get(d, key, default) == IF key \in DOMAIN d THEN d[key] ELSE default

\* d[key] = value
dict_set(d, key, value) ==
    [k \in DOMAIN d \cup {key} |-> IF k = key THEN value ELSE d[k]]

\* bool(v) of a dict or a list.
NonEmpty(v) == DOMAIN v # {}

\* The entities of a turn are an ordered mapping, as the StateManager's
\* entries are: entities.get(key).
entities_get(entities, key) ==
    IF \E i \in 1..Len(entities) : entities[i].key = key
    THEN entities[CHOOSE i \in 1..Len(entities) : entities[i].key = key].value
    ELSE None

\* The entities of a turn whose model output holds "entities": null: the
\* None of Python, which is no mapping of keys (no key of a dict is None
\* here, as the keys come from JSON).
NoneEntities == <<[key |-> None, value |-> None]>>

\* repr of a str without quotes or backslashes in it.
ReprStr(v) == "'" \o v \o "'"

\* repr of a list of such strings.
RECURSIVE ReprItems(_)
ReprItems(items) ==
    IF items = <<>> THEN ""
    ELSE IF Len(items) = 1 THEN ReprStr(items[1])
    ELSE ReprStr(items[1]) \o ", " \o ReprItems(Tail(items))

ReprList(items) == "[" \o ReprItems(items) \o "]"

\* repr of an optional str.
ReprOptional(v) == IF v = None THEN "None" ELSE ReprStr(v)

\* repr of the order_info dict that _update_context builds (its timestamp
\* is the position of the call, where Python has the text of a time).
ReprOrderInfo(order_info) ==
    "{'order_number': " \o ReprOptional(order_info.order_number)
    \o ", 'customer_name': " \o ReprOptional(order_info.customer_name)
    \o ", 'products': " \o ReprList(order_info.products)
    \o ", 'status': " \o ReprOptional(order_info.status)
    \o ", 'last_checked': " \o ReprStr(ToString(order_info.last_checked)) \o "}"

\* repr of the value of an entity: the two keys the coordinator adds hold a
\* list of products and an order_info, the others an optional str.
ReprValue(key, value) ==
    IF key = "ReferencedProducts" THEN ReprList(value)
    ELSE IF key = "ReferencedOrder" THEN ReprOrderInfo(value)
    ELSE ReprOptional(value)

\* repr of the entities mapping.
RECURSIVE ReprEntries(_)
ReprEntries(entries) ==
    IF entries = <<>> THEN ""
    ELSE ReprStr(entries[1].key) \o ": " \o ReprValue(entries[1].key, entries[1].value)
         \o (IF Len(entries) = 1 THEN "" ELSE ", " \o ReprEntries(Tail(entries)))

ReprEntities(entries) == "{" \o ReprEntries(entries) \o "}"

\* ConversationMemory.__init__: _max_recent_interactions
max_recent_interactions == 5

\* ConversationMemory.__init__: no context, no interaction.
ConversationMemory_init ==
    [conversation_context |-> EmptyDict, recent_interactions |-> <<>>]

\* keep_most_recent as the slice that keeps the oldest interactions.
keep_oldest(interactions) ==
    IF Len(interactions) > max_recent_interactions
    THEN SubSeq(interactions, 1, max_recent_interactions)
    ELSE interactions

\* add_interaction, the trimming: interactions[-5:] once there are more than 5.
keep_most_recent(interactions) ==
    IF Len(interactions) > max_recent_interactions
    THEN SubSeq(interactions, Len(interactions) - max_recent_interactions + 1,
                Len(interactions))
    ELSE interactions

\* _update_context as a method that does not keep the products a
\* recommendation mentioned.
update_context_without_products_mentioned(context, interaction) ==
    LET intent   == interaction.intent
        entities == interaction.entities
        key_info == interaction.key_info
        with_email ==
            IF Truthy(entities_get(entities, "Email"))
            THEN dict_set(context, "customer_email", entities_get(entities, "Email"))
            ELSE context
        order_info ==
            [order_number  |-> dict_get(key_info, "order_number", None),
             customer_name |-> dict_get(key_info, "customer_name", None),
             products      |-> dict_get(key_info, "products", <<>>),
             status        |-> dict_get(key_info, "status", None),
             last_checked  |-> interaction.timestamp]
        with_order == dict_set(with_email, "last_order_lookup", order_info)
    IN  IF intent = "ORDER_STATUS" /\ NonEmpty(key_info)
        THEN IF dict_get(key_info, "products", <<>>) # <<>>
             THEN dict_set(with_order, "recent_products", key_info["products"])
             ELSE with_order
        ELSE IF intent = "EARLY_RISERS_PROMOTION" /\ NonEmpty(key_info)
        THEN IF Truthy(dict_get(key_info, "promo_code", None))
             THEN dict_set(with_email, "last_promo_code", key_info["promo_code"])
             ELSE with_email
        ELSE with_email

\* _update_context: the customer's email, then one branch by intent.  With
\* entities that are None, entities.get raises and the except clause leaves
\* the context as it is.
update_context(context, interaction) ==
    IF interaction.entities = NoneEntities THEN context ELSE
    LET intent   == interaction.intent
        entities == interaction.entities
        key_info == interaction.key_info
        with_email ==
            IF Truthy(entities_get(entities, "Email"))
            THEN dict_set(context, "customer_email", entities_get(entities, "Email"))
            ELSE context
        order_info ==
            [order_number  |-> dict_get(key_info, "order_number", None),
             customer_name |-> dict_get(key_info, "customer_name", None),
             products      |-> dict_get(key_info, "products", <<>>),
             status        |-> dict_get(key_info, "status", None),
             last_checked  |-> interaction.timestamp]
        with_order == dict_set(with_email, "last_order_lookup", order_info)
    IN  IF intent = "ORDER_STATUS" /\ NonEmpty(key_info)
        THEN IF dict_get(key_info, "products", <<>>) # <<>>
             THEN dict_set(with_order, "recent_products", key_info["products"])
             ELSE with_order
        ELSE IF intent = "PRODUCT_RECOMMENDATION" /\ NonEmpty(key_info)
        THEN IF dict_get(key_info, "products_mentioned", <<>>) # <<>>
             THEN dict_set(with_email, "recent_products", key_info["products_mentioned"])
             ELSE with_email
        ELSE IF intent = "EARLY_RISERS_PROMOTION" /\ NonEmpty(key_info)
        THEN IF Truthy(dict_get(key_info, "promo_code", None))
             THEN dict_set(with_email, "last_promo_code", key_info["promo_code"])
             ELSE with_email
        ELSE with_email

\* The context as it would be if it were derived from a list of interactions.
RECURSIVE ContextOf(_)
ContextOf(interactions) ==
    IF interactions = <<>> THEN EmptyDict
    ELSE update_context(ContextOf(SubSeq(interactions, 1, Len(interactions) - 1)),
                        interactions[Len(interactions)])

\* add_interaction as a method that derives the context from the
\* interactions it keeps, so that the context forgets what the list forgot.
add_interaction_rebuilding_context(memory, timestamp, intent, query, entities, agent_used, key_info) ==
    LET interaction ==
            [timestamp |-> timestamp, intent |-> intent, query |-> query,
             entities |-> entities, agent_used |-> agent_used,
             key_info |-> key_info]
        kept == keep_most_recent(Append(memory.recent_interactions, interaction))
    IN  [conversation_context |-> ContextOf(kept), recent_interactions |-> kept]

\* add_interaction: the record of the turn ("key_info or {}" is key_info, a
\* dict), appended; the list trimmed; the context updated.
add_interaction(memory, timestamp, intent, query, entities, agent_used, key_info) ==
    LET interaction ==
            [timestamp |-> timestamp, intent |-> intent, query |-> query,
             entities |-> entities, agent_used |-> agent_used,
             key_info |-> key_info]
    IN  [conversation_context |-> update_context(memory.conversation_context, interaction),
         recent_interactions |->
             keep_most_recent(Append(memory.recent_interactions, interaction))]

order_reference_keywords ==
    <<"that order", "my order", "the order", "this order", "those products",
      "these products", "the products", "my products", "what are those",
      "what are these", "tell me about", "more about">>

product_reference_keywords ==
    <<"those products", "these products", "the products", "what are those",
      "what are these", "tell me about them", "more details", "more info",
      "describe them">>

\* any(keyword in query.lower() for keyword in keywords)
AnyKeyword(keywords, query) ==
    \E query_lower \in {StrLower(query)} :
        \E i \in 1..Len(keywords) : Contains(query_lower, keywords[i])

_is_order_reference(query) == AnyKeyword(order_reference_keywords, query)

_is_product_reference(query) == AnyKeyword(product_reference_keywords, query)

\* self._is_order_reference(query), for the queries of the model.
OrderReferenceIn == [q \in Queries \cup SessionQueries \cup ContextQueries \cup LookupQueries |-> _is_order_reference(q)]

\* self._is_product_reference(query), for the queries of the model.
ProductReferenceIn == [q \in Queries \cup SessionQueries \cup ContextQueries \cup LookupQueries |-> _is_product_reference(q)]

\* _get_recent_summary, the parts one interaction adds.
summary_parts(interaction) ==
    LET intent   == interaction.intent
        key_info == interaction.key_info
        by_intent ==
            IF intent = "ORDER_STATUS"
            THEN IF Truthy(dict_get(key_info, "order_number", ""))
                 THEN <<"Looked up order " \o key_info["order_number"]
                        \o " with products "
                        \o ReprList(dict_get(key_info, "products", <<>>))>>
                 ELSE <<>>
            ELSE IF intent = "PRODUCT_RECOMMENDATION"
            THEN <<"Provided product recommendations about "
                   \o ReprList(dict_get(key_info, "products_mentioned", <<>>))>>
            ELSE IF intent = "EARLY_RISERS_PROMOTION"
            THEN <<"Provided Early Risers promotion code "
                   \o dict_get(key_info, "promo_code", "")>>
            ELSE IF intent = "WHO_ARE_YOU"
            THEN <<"Provided a brief introduction about Adventure Outfitters">>
            ELSE <<"No relevant intent was detected. Asked the user to clarify "
                   \o "and reiterated about the capabilities of the agent">>
        by_entities ==
            IF dict_get(key_info, "entities", <<>>) # <<>>
            THEN <<"Entities that were extracted from the user query: "
                   \o ReprEntities(key_info["entities"])>>
            ELSE <<>>
    IN  by_intent \o by_entities

RECURSIVE SummaryParts(_)
SummaryParts(interactions) ==
    IF interactions = <<>> THEN <<>>
    ELSE summary_parts(Head(interactions)) \o SummaryParts(Tail(interactions))

\* _get_recent_summary as a digest of all the interactions kept.
_get_recent_summary_of_all(memory) ==
    IF memory.recent_interactions = <<>> THEN ""
    ELSE Join("; ", SummaryParts(memory.recent_interactions))

\* _get_recent_summary: the parts of the last 3 interactions, joined.
_get_recent_summary(memory) ==
    LET n == Len(memory.recent_interactions)
    IN  IF n = 0 THEN ""
        ELSE Join("; ", SummaryParts(
                 SubSeq(memory.recent_interactions, IF n > 3 THEN n - 2 ELSE 1, n)))

\* get_contextual_info as a method that returns what the context holds
\* without asking whether the query refers to it.
get_contextual_info_ignoring_query(memory, current_query) ==
    LET context == memory.conversation_context
        c1 == IF "last_order_lookup" \in DOMAIN context
              THEN dict_set(EmptyDict, "referenced_order", context["last_order_lookup"])
              ELSE EmptyDict
        c2 == IF "recent_products" \in DOMAIN context
              THEN dict_set(c1, "referenced_products", context["recent_products"])
              ELSE c1
        c3 == IF "customer_email" \in DOMAIN context
              THEN dict_set(c2, "customer_email", context["customer_email"])
              ELSE c2
    IN  IF memory.recent_interactions # <<>>
        THEN dict_set(c3, "recent_interactions_summary", _get_recent_summary(memory))
        ELSE c3

\* get_contextual_info as a method that gives the customer's email only to
\* a query that refers to an order.
get_contextual_info_with_email_on_reference(memory, current_query) ==
    LET context == memory.conversation_context
        c1 == IF /\ OrderReferenceIn[current_query]
                 /\ "last_order_lookup" \in DOMAIN context
              THEN dict_set(EmptyDict, "referenced_order", context["last_order_lookup"])
              ELSE EmptyDict
        c2 == IF /\ ProductReferenceIn[current_query]
                 /\ "recent_products" \in DOMAIN context
              THEN dict_set(c1, "referenced_products", context["recent_products"])
              ELSE c1
        c3 == IF /\ OrderReferenceIn[current_query]
                 /\ "customer_email" \in DOMAIN context
              THEN dict_set(c2, "customer_email", context["customer_email"])
              ELSE c2
    IN  IF memory.recent_interactions # <<>>
        THEN dict_set(c3, "recent_interactions_summary", _get_recent_summary(memory))
        ELSE c3

\* get_contextual_info: the dict it returns.
get_contextual_info(memory, current_query) ==
    LET context == memory.conversation_context
        c1 == IF /\ OrderReferenceIn[current_query]
                 /\ "last_order_lookup" \in DOMAIN context
              THEN dict_set(EmptyDict, "referenced_order", context["last_order_lookup"])
              ELSE EmptyDict
        c2 == IF /\ ProductReferenceIn[current_query]
                 /\ "recent_products" \in DOMAIN context
              THEN dict_set(c1, "referenced_products", context["recent_products"])
              ELSE c1
        c3 == IF "customer_email" \in DOMAIN context
              THEN dict_set(c2, "customer_email", context["customer_email"])
              ELSE c2
    IN  IF memory.recent_interactions # <<>>
        THEN dict_set(c3, "recent_interactions_summary", _get_recent_summary(memory))
        ELSE c3

\* clear_context as a reset of the history that keeps the snapshot.
clear_context_keeping_snapshot(memory) ==
    [conversation_context |-> memory.conversation_context, recent_interactions |-> <<>>]

\* clear_context: both the context and the interactions are emptied.
clear_context(memory) == ConversationMemory_init

\* get_full_context
get_full_context(memory) ==
    [context |-> memory.conversation_context,
     recent_interactions |-> memory.recent_interactions]

\* The turns recorded in the memory: what the coordinator passes to
\* add_interaction after a found order, a product recommendation, a
\* promotion code and an unknown intent.
Interactions ==
    <<[intent |-> "ORDER_STATUS",
       query |-> "Check order #W001 for john.doe@example.com",
       entities |-> <<[key |-> "Email", value |-> "john.doe@example.com"],
                      [key |-> "OrderNumber", value |-> "#W001"]>>,
       agent_used |-> AgentName,
       key_info |-> [order_number |-> "#W001", customer_name |-> "John Doe",
                     products |-> <<"SOBP001", "SOWB004">>, status |-> "delivered",
                     entities |-> <<[key |-> "Email", value |-> "john.doe@example.com"],
                                    [key |-> "OrderNumber", value |-> "#W001"]>>]],
      [intent |-> "PRODUCT_RECOMMENDATION",
       query |-> "recommend a backpack",
       entities |-> <<>>,
       agent_used |-> "ProductRecommendationAgent",
       key_info |-> [products_mentioned |-> <<"SOSB006">>]],
      [intent |-> "EARLY_RISERS_PROMOTION",
       query |-> "early risers promotion",
       entities |-> <<>>,
       agent_used |-> "EarlyRisersPromotionAgent",
       key_info |-> [promo_code |-> "EARLY0830AB12"]],
      [intent |-> "UNKNOWN",
       query |-> "what is the weather",
       entities |-> <<>>,
       agent_used |-> "None",
       key_info |-> EmptyDict]>>

\* The intent labels add_interaction is called with (its parameter is a
\* str) and the key_info dicts: the products of an order, the products a
\* recommendation mentioned, a promotion code.
ApiIntents ==
    {"ORDER_STATUS", "PRODUCT_RECOMMENDATION", "EARLY_RISERS_PROMOTION", "UNKNOWN"}

ApiKeyInfos ==
    {[products |-> <<"SOBP001", "SOWB004">>],
     [products_mentioned |-> <<"SOSB006">>],
     [promo_code |-> "EARLY0830AB12"]}

\* The query of the follow-up question.
ThoseProductsQuery == "what are those products?"

(***************************************************************************)
(* AdventureOutfittersAgent: the coordinator                               *)
(***************************************************************************)

\* The names of the members of Intent.
IntentNames ==
    {"ORDER_STATUS", "PRODUCT_RECOMMENDATION", "EARLY_RISERS_PROMOTION",
     "WHO_ARE_YOU", "UNKNOWN"}

\* s.strip()
RECURSIVE StrStrip(_)
StrStrip(s) ==
    IF s = "" THEN ""
    ELSE IF At(s, 1) \in Whitespace THEN StrStrip(Tail(s))
    ELSE IF At(s, Len(s)) \in Whitespace THEN StrStrip(SubSeq(s, 1, Len(s) - 1))
    ELSE s

\* re.search(r"#(W\d+)", content): "#" and group 1 of the leftmost match,
\* None when there is none.
OrderNumberIn(content) ==
    LET starts == {i \in 1..Len(content) : HashOrderEndAt(content, i) > 0}
    IN  IF starts = {} THEN None
        ELSE SubSeq(content, SetMin(starts), HashOrderEndAt(content, SetMin(starts)))

\* The position of the first "!" at or after position i, 0 when none.
BangFrom(s, i) ==
    LET bangs == {j \in i..Len(s) : At(s, j) = "!"}
    IN  IF bangs = {} THEN 0 ELSE SetMin(bangs)

\* re.search(r"hello ([^!]+)!", content, re.IGNORECASE): group 1 of the
\* leftmost match, stripped; None when there is none.  A match starts where
\* "hello " stands in any letter case and a "!" follows at least one other
\* character.
CustomerNameIn(content) ==
    LET starts == {i \in 1..Len(content) :
                      /\ At(content, i) \in {"h", "H"}
                      /\ StrLower(SubSeq(content, i, i + 5)) = "hello "
                      /\ BangFrom(content, i + 6) > i + 6}
    IN  IF starts = {} THEN None
        ELSE StrStrip(SubSeq(content, SetMin(starts) + 6,
                             BangFrom(content, SetMin(starts) + 6) - 1))

\* "SO[A-Z]{2}\d+": the end of the match starting at i, 0 when none starts
\* there.
SkuEndAt(s, i) ==
    IF /\ At(s, i) = "S" /\ At(s, i + 1) = "O"
       /\ At(s, i + 2) \in Upper /\ At(s, i + 3) \in Upper
       /\ At(s, i + 4) \in Digits
    THEN RunEnd(s, i + 4, Digits)
    ELSE 0

\* The matches that start at one of the positions starts, from position k
\* on, left to right and without overlap.
RECURSIVE SkusFrom(_, _, _)
SkusFrom(s, starts, k) ==
    LET rest == {i \in starts : i >= k}
    IN  IF rest = {} THEN <<>>
        ELSE <<SubSeq(s, SetMin(rest), SkuEndAt(s, SetMin(rest)))>>
             \o SkusFrom(s, starts, SkuEndAt(s, SetMin(rest)) + 1)

\* re.findall(r"(SO[A-Z]{2}\d+)", content)
ProductsIn(content) ==
    SkusFrom(content, {i \in 1..Len(content) : SkuEndAt(content, i) > 0}, 1)

\* "EARLY\d+[A-Z0-9]+": the end of the match starting at i, 0 when none
\* starts there.  The digits are followed by at least one more character of
\* [A-Z0-9], which may be the last of the digits.
PromoEndAt(s, i) ==
    IF /\ SubSeq(s, i, i + 4) = "EARLY"
       /\ At(s, i + 5) \in Digits
       /\ At(s, i + 6) \in (Upper \cup Digits)
    THEN RunEnd(s, i + 5, Upper \cup Digits)
    ELSE 0

\* re.search(r"EARLY\d+[A-Z0-9]+", content): the leftmost match, None when
\* there is none.
PromoCodeIn(content) ==
    LET starts == {i \in 1..(Len(content) - 6) : PromoEndAt(content, i) > 0}
    IN  IF starts = {} THEN None
        ELSE SubSeq(content, SetMin(starts), PromoEndAt(content, SetMin(starts)))

\* "word in content.lower()" for a word in lower case: lower() changes each
\* character on its own, so the word stands in the lowered content where
\* the lowered characters of the content are the word's.
InLowered(content, word) ==
    \E i \in 1..(Len(content) - Len(word) + 1) :
        /\ LowerChar(At(content, i)) = At(word, 1)
        /\ StrLower(SubSeq(content, i, i + Len(word) - 1)) = word

\* The status word of an order reply: the first of the four that the
\* lower-cased content contains, None when it contains none.
StatusIn(content) ==
    IF InLowered(content, "delivered") THEN "delivered"
    ELSE IF InLowered(content, "fulfilled") THEN "fulfilled"
    ELSE IF InLowered(content, "in-transit") THEN "in-transit"
    ELSE IF InLowered(content, "error") THEN "error"
    ELSE None

\* d with d[key] = value when the value was found, d itself otherwise.
SetIfFound(d, key, value, found) == IF found THEN dict_set(d, key, value) ELSE d

\* _extract_key_info_from_response, the branch of the intent: what the
\* content of the sub-agent's reply tells.
key_info_of_content(intent, content) ==
    IF intent = "ORDER_STATUS"
    THEN LET k1 == SetIfFound(EmptyDict, "order_number", OrderNumberIn(content),
                              OrderNumberIn(content) # None)
             k2 == SetIfFound(k1, "customer_name", CustomerNameIn(content),
                              CustomerNameIn(content) # None)
             k3 == SetIfFound(k2, "products", ProductsIn(content),
                              ProductsIn(content) # <<>>)
         IN  SetIfFound(k3, "status", StatusIn(content), StatusIn(content) # None)
    ELSE IF intent = "PRODUCT_RECOMMENDATION"
    THEN SetIfFound(EmptyDict, "products_mentioned", ProductsIn(content),
                    ProductsIn(content) # <<>>)
    ELSE IF intent = "EARLY_RISERS_PROMOTION"
    THEN SetIfFound(EmptyDict, "promo_code", PromoCodeIn(content),
                    PromoCodeIn(content) # None)
    ELSE EmptyDict

(***************************************************************************)
(* EarlyRisersPromotionAgent                                               *)
(***************************************************************************)

\* ./data/promo_codes.json: whether the file exists, and the dict it holds,
\* by session id.
NoPromoFile == [exists |-> FALSE, codes |-> EmptyDict]

\* The agent __init__ makes for a session: promo_codes is what
\* _load_promo_codes returns.  loaded keeps the session ids it returned,
\* saved tells whether _save_promo_codes has written the code of this
\* session.
PromotionAgent_init(session_id, promo_codes) ==
    [session_id |-> session_id, promo_codes |-> promo_codes,
     loaded |-> DOMAIN promo_codes, saved |-> FALSE]

\* _load_promo_codes: the dict of the file, {} when there is no file.
_load_promo_codes(file) == IF file.exists THEN file.codes ELSE EmptyDict

\* _save_promo_codes: the file holds the agent's promo_codes, all of it.
_save_promo_codes(promo_codes) == [exists |-> TRUE, codes |-> promo_codes]

\* is_early_risers_time, for the hour of datetime.now(pacific).
is_early_risers_time(current_hour) == 7 <= current_hour /\ current_hour < 10

\* f"{n:02d}"
Pad2(n) == IF n < 10 THEN "0" \o ToString(n) ELSE ToString(n)

\* strftime('%I:%M %p')
StrfTime12(hour, minute) ==
    Pad2(IF hour % 12 = 0 THEN 12 ELSE hour % 12) \o ":" \o Pad2(minute)
    \o (IF hour < 12 THEN " AM" ELSE " PM")

\* What generate_promo_code leaves and returns: the agent, the file, the
\* code, and whether save_json raised.
PromoResult(agent, file, promo_code, raised) ==
    [agent |-> agent, file |-> file, promo_code |-> promo_code, raised |-> raised]

\* generate_promo_code, as it would be without the test for a code the
\* session already has: every call makes a code and saves.
generate_promo_code_afresh(agent, file, timestamp_date, unique_id, now, save_fails) ==
    LET promo_code == "EARLY" \o timestamp_date \o unique_id
        promo_codes == dict_set(agent.promo_codes, agent.session_id,
                           [promo_code |-> promo_code, generated_at |-> now])
    IN  IF save_fails
        THEN PromoResult([agent EXCEPT !.promo_codes = promo_codes], file,
                         promo_code, TRUE)
        ELSE PromoResult([agent EXCEPT !.promo_codes = promo_codes, !.saved = TRUE],
                         _save_promo_codes(promo_codes), promo_code, FALSE)

\* generate_promo_code, as it would be with the file read again before the
\* entry of the session is written.
generate_promo_code_reloading(agent, file, timestamp_date, unique_id, now, save_fails) ==
    IF agent.session_id \in DOMAIN agent.promo_codes
    THEN PromoResult(agent, file, agent.promo_codes[agent.session_id].promo_code, FALSE)
    ELSE LET promo_code == "EARLY" \o timestamp_date \o unique_id
             merged == [id \in DOMAIN agent.promo_codes \cup DOMAIN _load_promo_codes(file) |->
                           IF id \in DOMAIN _load_promo_codes(file)
                           THEN _load_promo_codes(file)[id] ELSE agent.promo_codes[id]]
             promo_codes == dict_set(merged, agent.session_id,
                                [promo_code |-> promo_code, generated_at |-> now])
         IN  IF save_fails
             THEN PromoResult([agent EXCEPT !.promo_codes = promo_codes], file,
                              promo_code, TRUE)
             ELSE PromoResult([agent EXCEPT !.promo_codes = promo_codes, !.saved = TRUE],
                              _save_promo_codes(promo_codes), promo_code, FALSE)

\* generate_promo_code: the code the session already has in promo_codes;
\* else a new code of the date and the first eight characters of a uuid,
\* put into promo_codes under the session id, and promo_codes saved.  When
\* save_json raises, promo_codes holds the code and the file does not.
generate_promo_code(agent, file, timestamp_date, unique_id, now, save_fails) ==
    IF agent.session_id \in DOMAIN agent.promo_codes
    THEN PromoResult(agent, file, agent.promo_codes[agent.session_id].promo_code, FALSE)
    ELSE LET promo_code == "EARLY" \o timestamp_date \o unique_id
             promo_codes == dict_set(agent.promo_codes, agent.session_id,
                                [promo_code |-> promo_code, generated_at |-> now])
         IN  IF save_fails
             THEN PromoResult([agent EXCEPT !.promo_codes = promo_codes], file,
                              promo_code, TRUE)
             ELSE PromoResult([agent EXCEPT !.promo_codes = promo_codes, !.saved = TRUE],
                              _save_promo_codes(promo_codes), promo_code, FALSE)

\* The replies of EarlyRisersPromotionAgent.process (without the emoji).
time_msg(current_hour, minute) ==
    " The Early Risers promotion is only available from 8:00 AM to "
    \o "10:00 AM Pacific Time! It's currently " \o Pad2(current_hour) \o ":"
    \o Pad2(minute) \o " Pacific. Rise early tomorrow to catch "
    \o "this amazing 10% discount! Onward into the unknown! "

response_text(current_hour, minute, promo_code) ==
    " Good morning, early riser! You're up bright and early at "
    \o StrfTime12(current_hour, minute) \o " Pacific Time! \n\n"
    \o " Here's your exclusive Early Risers 10% discount code:\n\n"
    \o "**" \o promo_code \o "**\n\n"
    \o " This code gives you 10% off your entire order! Use it at checkout before it expires.\n\n"
    \o " Thanks for being an early bird! The mountains are calling, and "
    \o "you're ready to answer! Onward into the unknown! "

promotion_error_msg ==
    " I encountered an issue while generating your Early Risers "
    \o "discount code. Please try again! Onward into the unknown! "

\* What a call of process leaves and returns.
PromotionResult(agent, file, reply, content, promo_code) ==
    [agent |-> agent, file |-> file, reply |-> reply, content |-> content,
     promo_code |-> promo_code]

\* process, once generate_promo_code has returned g.
promotion_reply(current_hour, minute, g) ==
    IF g.raised
    THEN PromotionResult(g.agent, g.file, "error", promotion_error_msg, None)
    ELSE PromotionResult(g.agent, g.file, "code",
                         response_text(current_hour, minute, g.promo_code), g.promo_code)

\* EarlyRisersPromotionAgent.process: outside the hours of
\* is_early_risers_time the time message and nothing else; inside, the
\* code of generate_promo_code in the response, or the error message when
\* it raised.
promotion_process(agent, file, current_hour, minute, timestamp_date, unique_id, now, save_fails) ==
    IF ~is_early_risers_time(current_hour)
    THEN PromotionResult(agent, file, "time", time_msg(current_hour, minute), None)
    ELSE promotion_reply(current_hour, minute,
             generate_promo_code(agent, file, timestamp_date, unique_id, now, save_fails))

\* The hours and minutes of the clock at a request: around both ends of the
\* window, and the ends of the day.
Hours == {0, 6, 7, 8, 9, 10, 11, 23}

Minutes == {0, 59}

\* datetime.now().strftime("%Y%m%d") and str(uuid.uuid4())[:8].upper()
TimestampDates == {"20240115"}

UniqueIds == {"1A2B3C4D", "9F8E7D6C"}

\* The replies of the promotion agent in a session: outside the window,
\* with a code, and the error message.
PromotionReplies ==
    {time_msg(11, 0), response_text(8, 0, "EARLY20240115" \o "1A2B3C4D"),
     promotion_error_msg}

\* The reply of ProductRecommendationAgent.process: the text a model call
\* wrote about the products found.
recommendation_text ==
    "The Backcountry Blaze Backpack (SKU: SOSB006) is ready for your next trip!"

\* The emails and order numbers a turn of a session can resolve, and the
\* contents the sub-agents can reply with for them.
SessionEmails == {"ethan.harris@example.com", "john.doe@example.com"}

SessionOrders == {"#W001", "#W007", "#W999"}

ReplyContents ==
    {instructions_msg, lookup_error_msg, recommendation_text}
    \cup PromotionReplies
    \cup {status_message(orders_data[i], orders_data[i].Email, orders_data[i].OrderNumber) :
             i \in 1..Len(orders_data)}
    \cup {not_found_msg(e, o) : e \in SessionEmails, o \in SessionOrders}
    \cup {email_msg(e) : e \in SessionEmails}
    \cup {invalid_order_msg(e) : e \in SessionEmails}
    \cup {missing_order_msg(e) : e \in SessionEmails}
    \cup {order_msg(o) : o \in SessionOrders}
    \cup {email_needed_msg(o) : o \in SessionOrders}
    \cup {missing_email_msg(o) : o \in SessionOrders}

\* key_info_of_content, for the intents with a sub-agent and the contents
\* of the model.
KeyInfoIn ==
    [intent \in {"ORDER_STATUS", "PRODUCT_RECOMMENDATION", "EARLY_RISERS_PROMOTION"} |->
        [content \in ReplyContents |-> key_info_of_content(intent, content)]]

\* _extract_key_info_from_response: what the reply of the sub-agent tells,
\* by intent, and the entities of the turn when there are any.
_extract_key_info_from_response(intent, content, entities) ==
    LET by_intent == KeyInfoIn[intent][content]
    IN  IF entities # NoneEntities /\ entities # <<>>
        THEN dict_set(by_intent, "entities", entities)
        ELSE by_intent

\* route_to_agent: the name of the sub-agent of the intent, None for
\* UNKNOWN and for WHO_ARE_YOU, which the table does not hold.
route_to_agent(intent) ==
    IF intent = "ORDER_STATUS" THEN "OrderStatusAgent"
    ELSE IF intent = "PRODUCT_RECOMMENDATION" THEN "ProductRecommendationAgent"
    ELSE IF intent = "EARLY_RISERS_PROMOTION" THEN "EarlyRisersPromotionAgent"
    ELSE None

\* What the model call of determine_intent came to: it failed (no success,
\* no JSON in the text, or an exception), or it gave a JSON object with an
\* intent and the entities, a dict or null.
FailedCall == [parsed |-> FALSE, intent |-> "UNKNOWN", entities |-> <<>>]

ParsedCall(intent, entities) == [parsed |-> TRUE, intent |-> intent, entities |-> entities]

\* determine_intent, once the JSON of the model is there: the products and
\* the order that get_contextual_info returned for the query are put under
\* ReferencedProducts and ReferencedOrder when the intent is
\* PRODUCT_RECOMMENDATION.  Storing into entities that are None raises, and
\* so does nothing else: UNKNOWN and no entities.  An intent that is no
\* member of Intent gives UNKNOWN and no entities too.
intent_and_entities(call, context_info) ==
    LET adds == NonEmpty(context_info) /\ call.intent = "PRODUCT_RECOMMENDATION"
        adds_products == adds /\ dict_get(context_info, "referenced_products", <<>>) # <<>>
        adds_order == adds /\ "referenced_order" \in DOMAIN context_info
    IN  IF call.entities = NoneEntities /\ (adds_products \/ adds_order)
        THEN [intent |-> "UNKNOWN", entities |-> <<>>]
        ELSE IF call.intent \notin IntentNames
        THEN [intent |-> "UNKNOWN", entities |-> <<>>]
        ELSE IF adds_products /\ adds_order
        THEN [intent |-> call.intent,
              entities |-> SetItem(SetItem(call.entities, "ReferencedProducts",
                                           context_info["referenced_products"]),
                                   "ReferencedOrder", context_info["referenced_order"])]
        ELSE IF adds_products
        THEN [intent |-> call.intent,
              entities |-> SetItem(call.entities, "ReferencedProducts",
                                   context_info["referenced_products"])]
        ELSE IF adds_order
        THEN [intent |-> call.intent,
              entities |-> SetItem(call.entities, "ReferencedOrder",
                                   context_info["referenced_order"])]
        ELSE [intent |-> call.intent, entities |-> call.entities]

\* determine_intent: UNKNOWN and no entities when the call failed; else the
\* intent and the entities of the JSON, with what the context returns for
\* the query.
determine_intent(memory, query, call) ==
    IF ~call.parsed THEN [intent |-> "UNKNOWN", entities |-> <<>>]
    ELSE intent_and_entities(call, get_contextual_info(memory, query))

\* The entities as OrderStatusAgent.process reads them: the two keys it
\* asks for with entities.get, or the None that has no key.
EntitiesOfMetadata(entities) ==
    IF entities = NoneEntities THEN NullEntities
    ELSE [Email |-> entities_get(entities, "Email"),
          OrderNumber |-> entities_get(entities, "OrderNumber")]

\* The replies of the coordinator that no model call wrote.
processing_issue_msg ==
    " I encountered an issue while processing your request. "
    \o "Please try again! Onward into the unknown! "

processing_error_msg ==
    " I encountered an error while processing your request. "
    \o "Please try again later! Onward into the unknown! "

welcome_msg ==
    " Hello there, fellow adventurer! I'm here to help you with "
    \o "your Adventure Outfitters experience! \n\n I can help you with:\n"
    \o " **Order Status & Tracking** - Check your order status and get "
    \o "tracking information\n **Product Recommendations** - Find the "
    \o "perfect outdoor gear for your next adventure\n\nJust let me know "
    \o "what you need, and I'll get you equipped for your journey! "
    \o "Onward into the unknown! "

\* The reply of the except clause of process_query.
unexpected_error_msg ==
    " I encountered an unexpected error. Please try again or contact "
    \o "our support team. Onward into the unknown! "

\* The texts the model calls of the coordinator write: the consolidated
\* response and the response the supervisor made of it.
consolidated_text == "Here is what I found for you. Onward into the unknown!"

supervisor_text == "Here is what I found for you, adventurer. Onward into the unknown!"

\* How the model calls that write the final response came out: both
\* succeeded, the supervisor's failed, the first failed, or a statement
\* between them raised (a response with success and no text).
FinalOutcomes == {"ok", "supervisor_failed", "failed", "raised"}

\* The Message process returns to the customer, as far as it is read.
CustomerMessage(kind, content) == [kind |-> kind, content |-> content, raised |-> FALSE]

\* process, from the consolidation on, with no except clause around it: an
\* exception leaves the method.
final_response_unhandled(final) ==
    IF final = "ok" THEN CustomerMessage("response", supervisor_text)
    ELSE IF final = "supervisor_failed" THEN CustomerMessage("response", consolidated_text)
    ELSE IF final = "failed" THEN CustomerMessage("processing_issue", processing_issue_msg)
    ELSE [kind |-> "exception", content |-> None, raised |-> TRUE]

\* process, from the consolidation on: the supervisor's text, the
\* consolidated text when the supervisor's call failed, the reply for a
\* failed consolidation, and the reply of the except clause.
final_response(final) ==
    IF final = "ok" THEN CustomerMessage("response", supervisor_text)
    ELSE IF final = "supervisor_failed" THEN CustomerMessage("response", consolidated_text)
    ELSE IF final = "failed" THEN CustomerMessage("processing_issue", processing_issue_msg)
    ELSE CustomerMessage("processing_error", processing_error_msg)

\* _generate_unknown_intent_response: the same two calls; the welcome text
\* when the first failed or a statement raised.
_generate_unknown_intent_response(final) ==
    IF final = "ok" THEN CustomerMessage("response", supervisor_text)
    ELSE IF final = "supervisor_failed" THEN CustomerMessage("response", consolidated_text)
    ELSE CustomerMessage("welcome", welcome_msg)

\* What one call of the coordinator's process did: the state of the
\* session it leaves, what determine_intent returned, the sub-agent and its
\* reply, the key_info recorded, and the Message for the customer.
CoordinatorResult(sm, memory, d, agent_used, sub_reply, sub_content, key_info, calls, message) ==
    [state_manager |-> sm, memory |-> memory, intent |-> d.intent,
     entities |-> d.entities, agent_used |-> agent_used, sub_reply |-> sub_reply,
     sub_content |-> sub_content, key_info |-> key_info,
     extraction_calls |-> calls, message |-> message]

\* What the coordinator reads of the reply of a sub-agent: the state the
\* order status agent leaves, which reply it gave, its content, and how
\* often it called extract_order_info.  The other agents leave the state of
\* the order status agent alone.
OrderReply(r) ==
    [state_manager |-> r.state_manager, reply |-> r.reply,
     content |-> r.response.content, calls |-> r.extraction_calls]

DelegateReply(sm, content) ==
    [state_manager |-> sm, reply |-> "delegate", content |-> content, calls |-> 0]

NoReply(sm) == [state_manager |-> sm, reply |-> "none", content |-> "", calls |-> 0]

\* process of the coordinator, the turn that is recorded: add_interaction
\* with the key_info, and the Message.
recorded_turn(memory, timestamp, query, d, agent_used, sub, key_info, message) ==
    CoordinatorResult(sub.state_manager,
        add_interaction(memory, timestamp, d.intent, query, d.entities, agent_used,
                        key_info),
        d, agent_used, sub.reply, sub.content, key_info, sub.calls, message)

\* process of the coordinator, the turn of a sub-agent: the key_info of its
\* reply, the record, the final response.
delegated_turn(memory, timestamp, query, d, final, sub) ==
    recorded_turn(memory, timestamp, query, d, route_to_agent(d.intent), sub,
                  _extract_key_info_from_response(d.intent, sub.content, d.entities),
                  final_response(final))

\* process of the coordinator, once determine_intent has returned d: for
\* UNKNOWN the interaction is recorded and the unknown-intent response
\* returned; else the sub-agent (if any) is asked, the interaction recorded
\* with the key_info of its reply, and the final response written.
routed_turn(sm, memory, timestamp, query, extraction, delegate_content, final, d) ==
    IF d.intent = "UNKNOWN" /\ route_to_agent(d.intent) = None
    THEN recorded_turn(memory, timestamp, query, d, "None", NoReply(sm), EmptyDict,
                       _generate_unknown_intent_response(final))
    ELSE IF route_to_agent(d.intent) = None
    THEN CoordinatorResult(sm, memory, d, "None", "none", "", EmptyDict, 0,
                           final_response(final))
    ELSE IF route_to_agent(d.intent) = "OrderStatusAgent"
    THEN delegated_turn(memory, timestamp, query, d, final,
             OrderReply(process(sm, query, EntitiesOfMetadata(d.entities), extraction)))
    ELSE delegated_turn(memory, timestamp, query, d, final,
                        DelegateReply(sm, delegate_content))

\* process of the coordinator: determine_intent, then the rest.
coordinator_process(sm, memory, timestamp, query, call, extraction, delegate_content, final) ==
    routed_turn(sm, memory, timestamp, query, extraction, delegate_content, final,
                determine_intent(memory, query, call))

\* The context_info that _get_conversation_context_string reads for the
\* model call that writes the reply of a turn with result r, memory being
\* the memory before the turn.  _generate_unknown_intent_response reads it
\* after process has called add_interaction for the turn; for the other
\* intents process reads it ahead of the sub-agent and of add_interaction.
response_context_info(memory, r, query) ==
    IF r.intent = "UNKNOWN" THEN get_contextual_info(r.memory, query)
    ELSE get_contextual_info(memory, query)

\* process_query on a pipeline, once the coordinator's process has returned
\* r: the pipeline's objects as the call left them, and the turn.
pipeline_after(pipeline, timestamp, input, r) ==
    [state_manager |-> r.state_manager, memory |-> r.memory,
     turns |-> Append(pipeline.turns,
                      [query |-> input.query, call |-> input.call,
                       timestamp |-> timestamp])]

\* One call of process_query on a pipeline: the coordinator's process on
\* the StateManager and the ConversationMemory of that pipeline (the model
\* calls that write the final response succeed, the extraction fails).
pipeline_turn(pipeline, timestamp, input) ==
    pipeline_after(pipeline, timestamp, input,
        coordinator_process(pipeline.state_manager, pipeline.memory, timestamp,
                            input.query, input.call, NoExtraction,
                            recommendation_text, "ok"))

\* The pipelines after a call of process_query on one of them, if the
\* StateManager were an object all the pipelines share.
process_query_on_shared_state(all, id, timestamp, input) ==
    LET after == pipeline_turn(all[id], timestamp, input)
    IN  [i \in DOMAIN all |->
            IF i = id THEN after
            ELSE [all[i] EXCEPT !.state_manager = after.state_manager]]

\* The pipelines after a call of process_query on one of them: __init__
\* gave each pipeline agents of its own, each agent a StateManager and a
\* ConversationMemory of its own, so the call works on those of its
\* pipeline.
process_query_on(all, id, timestamp, input) ==
    [all EXCEPT ![id] = pipeline_turn(all[id], timestamp, input)]

\* process_query: the content of the coordinator's Message, or the reply
\* of the except clause when the coordinator's process raised.
process_query(message) ==
    IF message.raised THEN unexpected_error_msg ELSE message.content

(***************************************************************************)
(* The session's state and its observation                                 *)
(***************************************************************************)

VARIABLES
    state_manager,   \* OrderStatusAgent.state_manager
    last,            \* the last call of process: its inputs, the state before, its result
    held_email,      \* the email a turn stored, while only failure turns followed; else None
    failures,        \* the number of those failure turns (counted up to MaxFailures)
    memory,          \* the coordinator's ConversationMemory
    added,           \* the interactions added since the memory was last empty
    last_call,       \* the last call on the memory and what it returned
    turn,            \* the last call of process_query: its inputs, the session before, its result
    pipelines,       \* by session id: the state of an AdventureOutfittersPipeline and its own turns
    clock,           \* datetime.now(), as the number of turns of all the pipelines
    promo_file,      \* ./data/promo_codes.json
    promotion_agents, \* by session id: the EarlyRisersPromotionAgent of the session's pipeline
    promo,           \* the last call of the promotion agent's process: its inputs and result
    entry_call       \* the last call of a method of the StateManager: its inputs, the state before, its result

order_vars == <<state_manager, last, held_email, failures, entry_call>>

memory_vars == <<memory, added, last_call>>

session_vars == <<turn, pipelines, clock>>

promo_vars == <<promo_file, promotion_agents, promo>>

vars == <<state_manager, last, held_email, failures, memory, added, last_call, turn, pipelines, clock, promo_file, promotion_agents, promo, entry_call>>

\* The failure turns counted after an email was stored.
MaxFailures == 2

\* The replies of a turn that fails on a format or finds no order.
FailureReplies == {"invalid_order", "email_needed", "not_found"}

NoTurn ==
    [query |-> "", entities |-> [Email |-> None, OrderNumber |-> None],
     extraction |-> NoExtraction, before |-> StateManager_init,
     held_before |-> None, failures_before |-> 0,
     result |-> TurnResult(StateManager_init, "", "none", <<>>, FALSE, 0, None, None)]

\* The interactions added to one memory (until it is cleared).
MaxAdds == 6

\* The number of add_interaction calls with arbitrary records.
MaxApiAdds == 3

NoCall ==
    [op |-> "none", query |-> "", result |-> EmptyDict,
     memory_before |-> ConversationMemory_init]

\* The intents and entities the model call of determine_intent may give: a
\* failed call; an order status question with no entities, with an email,
\* with "entities": null; a product question with no entities and with
\* products the model names itself.
IntentCalls ==
    {FailedCall,
     ParsedCall("ORDER_STATUS", <<>>),
     ParsedCall("ORDER_STATUS", <<[key |-> "Email", value |-> "john.doe@example.com"]>>),
     ParsedCall("ORDER_STATUS", NoneEntities),
     ParsedCall("PRODUCT_RECOMMENDATION", <<>>),
     ParsedCall("PRODUCT_RECOMMENDATION",
                <<[key |-> "ReferencedProducts", value |-> <<"SOWB004">>]>>)}

\* What extract_order_info may return in a session: (None, None), or an
\* email and an order number.
SessionExtractions ==
    {NoExtraction, [email |-> "john.doe@example.com", order_number |-> "#W001"]}

\* The replies of the product recommendation agent.
ProductReplies == {recommendation_text}

\* The turns of one session.
MaxTurns == 2

\* No call of process_query yet.
NoQuery ==
    [number |-> 0, query |-> "", call |-> FailedCall, extraction |-> NoExtraction,
     final |-> "ok", before |-> StateManager_init,
     memory_before |-> ConversationMemory_init, previous_kind |-> "none",
     intent_context_info |-> EmptyDict, context_info |-> EmptyDict,
     result |-> CoordinatorResult(StateManager_init, ConversationMemory_init,
                                  [intent |-> "UNKNOWN", entities |-> <<>>], "None",
                                  "none", "", EmptyDict, 0,
                                  CustomerMessage("none", "")),
     returned |-> ""]

\* The ids of the sessions, and the pipeline __init__ makes for one: a
\* StateManager and a ConversationMemory of its own, and no turn yet.
SessionIds == {"session_a", "session_b"}

NewPipeline ==
    [state_manager |-> StateManager_init, memory |-> ConversationMemory_init,
     turns |-> <<>>]

\* The turns of all the pipelines together.
MaxPipelineTurns == 3

\* The turns of two customers who give the same email and then different
\* order numbers: the query, and whether the model call of
\* determine_intent classified it or failed.
PipelineInputs ==
    [query : {"ethan.harris@example.com", "#W007", "#W999"},
     call : {ParsedCall("ORDER_STATUS", <<>>), FailedCall}]

\* The turns of a session whose queries get every intent.
MaxRoutedTurns == 2

\* A model call of determine_intent for each member of Intent, and a failed
\* call.
RoutingCalls == {FailedCall} \cup {ParsedCall(intent, <<>>) : intent \in IntentNames}

\* The requests made of the promotion agents of all the sessions.
MaxPromoRequests == 3

\* The promotion agent of a session whose pipeline is not made yet, and no
\* call of its process yet.
NotStarted(id) == [started |-> FALSE, agent |-> PromotionAgent_init(id, EmptyDict)]

NoPromotion ==
    [session_id |-> "", current_hour |-> 0, minute |-> 0, file_before |-> NoPromoFile,
     result |-> PromotionResult(PromotionAgent_init("", EmptyDict), NoPromoFile,
                                "none", "", None)]

\* No method of the StateManager has been called from outside the agent.
NoEntryCall ==
    [op |-> "none", key |-> None, value |-> None, before |-> StateManager_init,
     raised |-> FALSE, returned |-> None]

Init ==
    /\ state_manager = StateManager_init
    /\ last = NoTurn
    /\ held_email = None
    /\ failures = 0
    /\ memory = ConversationMemory_init
    /\ added = <<>>
    /\ last_call = NoCall
    /\ turn = NoQuery
    /\ pipelines = [id \in SessionIds |-> NewPipeline]
    /\ clock = 0
    /\ promo_file = NoPromoFile
    /\ promotion_agents = [id \in SessionIds |-> NotStarted(id)]
    /\ promo = NoPromotion
    /\ entry_call = NoEntryCall

\* The state after a call of process with result r.
Observe(query, entities, extraction, r) ==
    /\ state_manager' = r.state_manager
    /\ entry_call' = entry_call
    /\ last' = [query |-> query, entities |-> entities, extraction |-> extraction,
                before |-> state_manager,
                held_before |-> held_email, failures_before |-> failures,
                result |-> r]
    /\ held_email' =
          IF r.reply = "stored_email" THEN get_value(r.state_manager, "email")
          ELSE IF r.reply \in FailureReplies THEN held_email
          ELSE None
    /\ failures' =
          IF r.reply \in FailureReplies /\ held_email # None
          THEN (IF failures < MaxFailures THEN failures + 1 ELSE failures)
          ELSE 0

\* One turn: the coordinator hands a query and its entities to process.  The
\* free-form extraction answers only in a turn that consults it.
Process ==
    \E query \in Queries, entities \in EntityInputs :
        \E r0 \in {process(state_manager, query, entities, NoExtraction)} :
            IF r0.extraction_calls = 0
            THEN Observe(query, entities, NoExtraction, r0)
            ELSE \E extraction \in ExtractionResults :
                    \E r \in {process(state_manager, query, entities, extraction)} :
                        Observe(query, entities, extraction, r)

\* One turn of the order status agent; the memory is not its concern.
ProcessTurn == Process /\ UNCHANGED memory_vars /\ UNCHANGED <<session_vars, promo_vars>>

Next == ProcessTurn

\* One turn of the order status agent with a query, entities and a
\* free-form extraction in the customer's own letter case.
ProcessLookup ==
    /\ \E query \in LookupQueries, entities \in LookupEntities :
          \E r0 \in {process(state_manager, query, entities, NoExtraction)} :
             IF r0.extraction_calls = 0
             THEN Observe(query, entities, NoExtraction, r0)
             ELSE \E extraction \in LookupExtractions :
                     \E r \in {process(state_manager, query, entities, extraction)} :
                         Observe(query, entities, extraction, r)
    /\ UNCHANGED memory_vars
    /\ UNCHANGED <<session_vars, promo_vars>>

NextLookup == ProcessLookup

SpecLookup == Init /\ [][NextLookup]_vars

Spec == Init /\ [][Next]_vars

\* A call of add_interaction.  The timestamp is datetime.now(): the position
\* of the call among the calls made since the memory was last empty.
AddInteraction ==
    /\ Len(added) < MaxAdds
    /\ \E i \in 1..Len(Interactions) :
          LET t == Interactions[i]
              timestamp == Len(added) + 1
              after == add_interaction(memory, timestamp, t.intent, t.query,
                                       t.entities, t.agent_used, t.key_info)
          IN  /\ memory' = after
              /\ added' = Append(added, after.recent_interactions[Len(after.recent_interactions)])
              /\ last_call' = [op |-> "add_interaction", query |-> t.query,
                               result |-> EmptyDict,
                               memory_before |-> memory]
    /\ UNCHANGED order_vars
    /\ UNCHANGED <<session_vars, promo_vars>>

\* A call of get_contextual_info: it reads the memory.
GetContextualInfo ==
    /\ \E query \in ContextQueries :
          last_call' = [op |-> "get_contextual_info", query |-> query,
                        result |-> get_contextual_info(memory, query),
                        memory_before |-> memory]
    /\ UNCHANGED <<memory, added>>
    /\ UNCHANGED order_vars
    /\ UNCHANGED <<session_vars, promo_vars>>

\* A call of clear_context.
ClearContext ==
    /\ memory' = clear_context(memory)
    /\ added' = <<>>
    /\ last_call' = [op |-> "clear_context", query |-> "", result |-> EmptyDict,
                                                           memory_before |-> memory]
    /\ UNCHANGED order_vars
    /\ UNCHANGED <<session_vars, promo_vars>>

\* A call of add_interaction with any intent label and any key_info.
AddRecord ==
    /\ Len(added) < MaxApiAdds
    /\ \E intent \in ApiIntents, key_info \in ApiKeyInfos :
          LET timestamp == Len(added) + 1
              after == add_interaction(memory, timestamp, intent, "recommend a backpack",
                                       <<>>, "None", key_info)
          IN  /\ memory' = after
              /\ added' = Append(added, after.recent_interactions[Len(after.recent_interactions)])
              /\ last_call' = [op |-> "add_interaction", query |-> "recommend a backpack",
                               result |-> EmptyDict,
                               memory_before |-> memory]
    /\ UNCHANGED order_vars
    /\ UNCHANGED <<session_vars, promo_vars>>

\* The follow-up question: get_contextual_info("what are those products?").
AskThoseProducts ==
    /\ last_call' = [op |-> "get_contextual_info", query |-> ThoseProductsQuery,
                     result |-> get_contextual_info(memory, ThoseProductsQuery),
                     memory_before |-> memory]
    /\ UNCHANGED <<memory, added>>
    /\ UNCHANGED order_vars
    /\ UNCHANGED <<session_vars, promo_vars>>

\* The state after a call of process_query with result r.
ObserveQuery(query, call, extraction, final, r) ==
    /\ state_manager' = r.state_manager
    /\ entry_call' = entry_call
    /\ memory' = r.memory
    /\ added' = IF r.memory = memory THEN added
                ELSE Append(added, r.memory.recent_interactions[Len(r.memory.recent_interactions)])
    /\ turn' = [number |-> turn.number + 1, query |-> query, call |-> call,
                extraction |-> extraction, final |-> final,
                before |-> state_manager, memory_before |-> memory,
                previous_kind |-> turn.result.message.kind,
                intent_context_info |-> get_contextual_info(memory, query),
                context_info |-> response_context_info(memory, r, query),
                result |-> r, returned |-> process_query(r.message)]

\* One turn of a session: process_query with a query, and what each model
\* call of the turn came to.  The product agent's reply is asked for only
\* when the intent is a product question, the extraction only in a turn
\* that consults it.
ProcessQuery ==
    /\ turn.number < MaxTurns
    /\ \E query \in SessionQueries, call \in IntentCalls, final \in FinalOutcomes :
          \E delegate_content \in (IF call.intent = "PRODUCT_RECOMMENDATION"
                                   THEN ProductReplies ELSE {""}) :
             \E r0 \in {coordinator_process(state_manager, memory, Len(added) + 1, query,
                                            call, NoExtraction, delegate_content, final)} :
                IF r0.extraction_calls = 0
                THEN ObserveQuery(query, call, NoExtraction, final, r0)
                ELSE \E extraction \in SessionExtractions :
                        \E r \in {coordinator_process(state_manager, memory, Len(added) + 1,
                                                      query, call, extraction,
                                                      delegate_content, final)} :
                            ObserveQuery(query, call, extraction, final, r)
    /\ UNCHANGED <<last, held_email, failures, entry_call, last_call, pipelines, clock, promo_vars>>

NextSession == ProcessQuery

SpecSession == Init /\ [][NextSession]_vars

\* A turn of one of the pipelines, at the time the clock shows.
PipelineTurn ==
    /\ clock < MaxPipelineTurns
    /\ \E id \in SessionIds, input \in PipelineInputs :
          pipelines' = process_query_on(pipelines, id, clock + 1, input)
    /\ clock' = clock + 1
    /\ UNCHANGED <<order_vars, memory_vars, turn, promo_vars>>

NextPipelines == PipelineTurn

SpecPipelines == Init /\ [][NextPipelines]_vars

\* AdventureOutfittersPipeline.__init__ for a session: its promotion agent
\* loads the promo codes of the file.
StartPipeline ==
    /\ \E id \in SessionIds :
          /\ ~promotion_agents[id].started
          /\ promotion_agents' =
                [promotion_agents EXCEPT
                    ![id] = [started |-> TRUE,
                             agent |-> PromotionAgent_init(id, _load_promo_codes(promo_file))]]
    /\ UNCHANGED <<promo_file, promo>>
    /\ UNCHANGED <<order_vars, memory_vars, session_vars>>

\* A promotion request of a session, at an hour and minute of the Pacific
\* clock; save_json writes the file or raises.
RequestPromotion ==
    /\ clock < MaxPromoRequests
    /\ \E id \in SessionIds, current_hour \in Hours, minute \in Minutes,
          timestamp_date \in TimestampDates, unique_id \in UniqueIds,
          save_fails \in BOOLEAN :
          /\ promotion_agents[id].started
          /\ \E r \in {promotion_process(promotion_agents[id].agent, promo_file,
                                          current_hour, minute, timestamp_date,
                                          unique_id, clock + 1, save_fails)} :
                /\ promo_file' = r.file
                /\ promotion_agents' = [promotion_agents EXCEPT ![id].agent = r.agent]
                /\ promo' = [session_id |-> id, current_hour |-> current_hour,
                             minute |-> minute, file_before |-> promo_file,
                             result |-> r]
    /\ clock' = clock + 1
    /\ UNCHANGED <<order_vars, memory_vars, turn, pipelines>>

\* One turn of a session, for every intent the model call of
\* determine_intent can name: the order status agent runs as in
\* ProcessQuery, the other sub-agents reply with one of their texts.
RouteQuery ==
    /\ turn.number < MaxRoutedTurns
    /\ \E query \in SessionQueries, call \in RoutingCalls, final \in FinalOutcomes :
          \E delegate_content \in (IF call.intent = "PRODUCT_RECOMMENDATION"
                                   THEN ProductReplies
                                   ELSE IF call.intent = "EARLY_RISERS_PROMOTION"
                                   THEN PromotionReplies ELSE {""}) :
             \E r0 \in {coordinator_process(state_manager, memory, Len(added) + 1, query,
                                            call, NoExtraction, delegate_content, final)} :
                IF r0.extraction_calls = 0
                THEN ObserveQuery(query, call, NoExtraction, final, r0)
                ELSE \E extraction \in SessionExtractions :
                        \E r \in {coordinator_process(state_manager, memory, Len(added) + 1,
                                                      query, call, extraction,
                                                      delegate_content, final)} :
                            ObserveQuery(query, call, extraction, final, r)
    /\ UNCHANGED <<last, held_email, failures, entry_call, last_call, pipelines, clock, promo_vars>>

NextRouting == RouteQuery

SpecRouting == Init /\ [][NextRouting]_vars

NextPromotion == StartPipeline \/ RequestPromotion

SpecPromotion == Init /\ [][NextPromotion]_vars

NextMemoryApi == AddRecord \/ AskThoseProducts

SpecMemoryApi == Init /\ [][NextMemoryApi]_vars

\* The most calls of add_interaction with entities of any kind in a session.
MaxEmailAdds == 3

\* The entities of a recorded turn: none, None, an Email that is empty, and
\* the Email of one customer or of another.
EmailEntities ==
    {<<>>, NoneEntities,
     <<[key |-> "Email", value |-> ""]>>,
     <<[key |-> "Email", value |-> "john.doe@example.com"]>>,
     <<[key |-> "OrderNumber", value |-> "#W002"],
       [key |-> "Email", value |-> "jane.smith@example.com"]>>}

\* A call of add_interaction for a turn with the entities the intent call
\* gave, before any sub-agent has left key_info.
AddEmailRecord ==
    /\ Len(added) < MaxEmailAdds
    /\ \E intent \in {"ORDER_STATUS", "UNKNOWN"}, entities \in EmailEntities :
          LET timestamp == Len(added) + 1
              after == add_interaction(memory, timestamp, intent, "hello",
                                       entities, "None", EmptyDict)
          IN  /\ memory' = after
              /\ added' = Append(added, after.recent_interactions[Len(after.recent_interactions)])
              /\ last_call' = [op |-> "add_interaction", query |-> "hello",
                               result |-> EmptyDict,
                               memory_before |-> memory]
    /\ UNCHANGED order_vars
    /\ UNCHANGED <<session_vars, promo_vars>>

NextEmails == AddEmailRecord \/ GetContextualInfo \/ ClearContext

\* The memory used with entities of every kind.
SpecEmails == Init /\ [][NextEmails]_vars

\* The keys and values handed to the StateManager: None, the empty string,
\* the two slots of the order status agent and a key of another caller.
EntryKeys == {None, "", "email", "order_number", "note"}

EntryValues == {"john.doe@example.com", "#W001", ""}

\* A call of add_entry: ValueError for a key that is empty or None, else
\* the entry set and the markdown rendered again.
AddEntry ==
    /\ \E key \in EntryKeys, value \in EntryValues :
          /\ state_manager' = add_entry(state_manager, key, value)
          /\ entry_call' = [op |-> "add_entry", key |-> key, value |-> value,
                            before |-> state_manager,
                            raised |-> add_entry_raises(key), returned |-> None]
    /\ UNCHANGED <<last, held_email, failures>>
    /\ UNCHANGED <<memory_vars, session_vars, promo_vars>>

\* A call of get_value.
GetValue ==
    /\ \E key \in EntryKeys :
          entry_call' = [op |-> "get_value", key |-> key, value |-> None,
                         before |-> state_manager,
                         raised |-> FALSE, returned |-> get_value(state_manager, key)]
    /\ UNCHANGED <<state_manager, last, held_email, failures>>
    /\ UNCHANGED <<memory_vars, session_vars, promo_vars>>

\* A call of clear_state.
ClearState ==
    /\ state_manager' = clear_state(state_manager)
    /\ entry_call' = [op |-> "clear_state", key |-> None, value |-> None,
                      before |-> state_manager, raised |-> FALSE, returned |-> None]
    /\ UNCHANGED <<last, held_email, failures>>
    /\ UNCHANGED <<memory_vars, session_vars, promo_vars>>

NextStateManager == AddEntry \/ GetValue \/ ClearState

\* The StateManager used through its own methods.
SpecStateManager == Init /\ [][NextStateManager]_vars

NextMemory == AddInteraction \/ GetContextualInfo \/ ClearContext

SpecMemory == Init /\ [][NextMemory]_vars

(***************************************************************************)
(* Properties of the order status dialogue                                 *)
(***************************************************************************)

\* The result of the last turn, and the values stored before it.
R == last.result

EmailBefore == get_value(last.before, "email")

OrderBefore == get_value(last.before, "order_number")

\* The turn found an order: some find_order call returned a record.
Found == \E i \in 1..Len(R.lookups) : R.lookups[i].order # 0

\* "#W" followed by digits, and nothing else.
WellFormedOrder(v) ==
    /\ Len(v) >= 3
    /\ At(v, 1) = "#"
    /\ At(v, 2) = "W"
    /\ \A i \in 3..Len(v) : At(v, i) \in Digits

\* C1: a turn calls clear_state if and only if its find_order call returned
\* an order; after such a turn neither "email" nor "order_number" is stored;
\* a turn that did not find an order removes no key from the state.
C1_ClearedIffFound ==
    /\ R.cleared <=> Found
    /\ Found => /\ get_value(state_manager, "email") = None
                /\ get_value(state_manager, "order_number") = None
                /\ state_manager = StateManager_init
    /\ ~Found => StateKeys(last.before) \subseteq StateKeys(state_manager)

\* C1 witness: a turn that found an order emptied a state that held an email.
C1_Witness ==
    /\ Found
    /\ Truthy(EmailBefore)
    /\ state_manager.state = <<>>

C3_NotFoundKeepsState ==
    \A i \in 1..Len(R.lookups) :
        R.lookups[i].order = 0
        => /\ state_manager = last.before
           /\ Contains(R.response.content, R.lookups[i].email)
           /\ Contains(R.response.content, R.lookups[i].order_number)

\* C3 witness: a stored email and an order number with no record.
C3_Witness ==
    /\ Truthy(EmailBefore)
    /\ R.lookups # <<>>
    /\ R.lookups[1].order = 0
    /\ R.lookups[1].order_number = "#W999"

\* C4 (as claimed): with an email stored, a turn whose order value is not
\* "#W" and digits makes no find_order call and ends in the format reply.
C4_InvalidOrderNeverLookedUp ==
    (/\ Truthy(EmailBefore)
     /\ Truthy(R.order_from_current)
     /\ ~WellFormedOrder(R.order_from_current))
    => /\ R.lookups = <<>>
       /\ R.reply = "invalid_order"

\* C5 (as claimed): with an email A stored, the reply to a text that is
\* digits only (the coordinator passing no entity) contains A, the text
\* itself and the example "#W001".
C5_InvalidReplyEchoesInput ==
    (/\ Truthy(EmailBefore)
     /\ StripIsDigit(last.query)
     /\ ~Truthy(last.entities.Email)
     /\ ~Truthy(last.entities.OrderNumber))
    => /\ Contains(R.response.content, EmailBefore)
       /\ Contains(R.response.content, last.query)
       /\ Contains(R.response.content, "#W001")

\* C6 (as claimed): with nothing stored, a turn that resolves an email and no
\* order number stores the email and asks for the order number with the
\* example "#W001".
C6_EmailStoredAndOrderAsked ==
    (/\ last.before.state = <<>>
     /\ Truthy(R.email_from_current)
     /\ ~Truthy(R.order_from_current))
    => /\ get_value(state_manager, "email") = R.email_from_current
       /\ Contains(R.response.content, "order number")
       /\ Contains(R.response.content, "#W001")

\* C7: with exactly one slot stored and only the other one resolved by the
\* turn, find_order is called once, with the stored value for the one and
\* the new value for the other.
C7_CompletionCombinesStoredAndNew ==
    /\ (/\ StateKeys(last.before) = {"email"}
        /\ ~Truthy(R.email_from_current)
        /\ Truthy(R.order_from_current))
       => /\ Len(R.lookups) = 1
          /\ R.lookups[1].email = EmailBefore
          /\ R.lookups[1].order_number = R.order_from_current
    /\ (/\ StateKeys(last.before) = {"order_number"}
        /\ Truthy(R.email_from_current)
        /\ ~Truthy(R.order_from_current))
       => /\ Len(R.lookups) = 1
          /\ R.lookups[1].email = R.email_from_current
          /\ R.lookups[1].order_number = OrderBefore

\* C7 witness: a stored order number, then an email: the order is found.
C7_Witness ==
    /\ StateKeys(last.before) = {"order_number"}
    /\ Truthy(R.email_from_current)
    /\ ~Truthy(R.order_from_current)
    /\ Found

\* C8 (as claimed): with nothing stored, a turn that resolves an order number
\* and no email stores it, makes no find_order call, and its reply contains
\* the order number and asks for the email address.
C8_OrderStoredAndEmailAsked ==
    (/\ last.before.state = <<>>
     /\ Truthy(R.order_from_current)
     /\ ~Truthy(R.email_from_current))
    => /\ get_value(state_manager, "order_number") = R.order_from_current
       /\ R.lookups = <<>>
       /\ Contains(R.response.content, R.order_from_current)
       /\ Contains(R.response.content, "email address")

\* C9: an email A that was stored is still stored, unchanged, after any
\* number of turns that failed on a format or found no order; and a turn
\* that then gives only the number B of an order of A calls find_order(A, B)
\* and finds it.
C9_StoredEmailSurvivesFailures ==
    /\ held_email # None => get_value(state_manager, "email") = held_email
    /\ (/\ last.held_before # None
        /\ ~Truthy(R.email_from_current)
        /\ Truthy(R.order_from_current)
        /\ find_order(last.held_before, R.order_from_current) # 0)
       => /\ Len(R.lookups) = 1
          /\ R.lookups[1].email = last.held_before
          /\ R.lookups[1].order_number = R.order_from_current
          /\ R.lookups[1].order # 0
          /\ R.reply = "found"

\* C9 witness: the order is found after two failure turns.
C9_Witness ==
    /\ last.held_before # None
    /\ last.failures_before >= 2
    /\ ~Truthy(R.email_from_current)
    /\ R.reply = "found"
    /\ R.lookups[1].email = last.held_before

(***************************************************************************)
(* Properties of the conversation memory                                   *)
(***************************************************************************)

\* The last n elements of a sequence (all of them when it has fewer).
LastOf(items, n) ==
    IF Len(items) > n THEN SubSeq(items, Len(items) - n + 1, Len(items)) ELSE items

\* C10: the memory holds at most 5 interactions, and they are the most
\* recently added ones in the order in which they were added, whatever
\* get_contextual_info was asked in between.
C10_RecentInteractionsAreLastFive ==
    /\ Len(memory.recent_interactions) <= 5
    /\ memory.recent_interactions = LastOf(added, 5)

\* C10 witness: a sixth interaction was added, the first one is gone, and
\* get_contextual_info has just answered a query that refers to earlier turns.
C10_Witness ==
    /\ Len(added) = 6
    /\ Len(memory.recent_interactions) = 5
    /\ memory.recent_interactions[1] = added[2]
    /\ last_call.op = "get_contextual_info"
    /\ "referenced_products" \in DOMAIN last_call.result

\* The categories of the context.
SnapshotFields ==
    {"customer_email", "last_order_lookup", "recent_products", "last_promo_code"}

\* The interaction sets the category: its entities or its key_info carry
\* what _update_context stores under it.
Writes(interaction, field) ==
    LET key_info == interaction.key_info
    IN  IF field = "customer_email"
        THEN Truthy(entities_get(interaction.entities, "Email"))
        ELSE IF field = "last_order_lookup"
        THEN interaction.intent = "ORDER_STATUS" /\ NonEmpty(key_info)
        ELSE IF field = "recent_products"
        THEN \/ /\ interaction.intent = "ORDER_STATUS"
                /\ dict_get(key_info, "products", <<>>) # <<>>
             \/ /\ interaction.intent = "PRODUCT_RECOMMENDATION"
                /\ dict_get(key_info, "products_mentioned", <<>>) # <<>>
        ELSE /\ interaction.intent = "EARLY_RISERS_PROMOTION"
             /\ Truthy(dict_get(key_info, "promo_code", None))

\* The value the interaction sets the category to.
WrittenValue(interaction, field) ==
    LET key_info == interaction.key_info
    IN  IF field = "customer_email"
        THEN entities_get(interaction.entities, "Email")
        ELSE IF field = "last_order_lookup"
        THEN [order_number  |-> dict_get(key_info, "order_number", None),
              customer_name |-> dict_get(key_info, "customer_name", None),
              products      |-> dict_get(key_info, "products", <<>>),
              status        |-> dict_get(key_info, "status", None),
              last_checked  |-> interaction.timestamp]
        ELSE IF field = "recent_products"
        THEN IF interaction.intent = "ORDER_STATUS"
             THEN key_info["products"] ELSE key_info["products_mentioned"]
        ELSE key_info["promo_code"]

\* The positions in added of the interactions that set the category.
Writers(field) == {i \in 1..Len(added) : Writes(added[i], field)}

\* C11: a category of the context holds what the last interaction that set
\* it stored, however many interactions were added since and whether or not
\* that interaction is still among the 5 kept; a category no interaction
\* set since the memory was last empty is absent.
C11_SnapshotOutlivesHistory ==
    \A field \in SnapshotFields :
        IF Writers(field) = {}
        THEN field \notin DOMAIN memory.conversation_context
        ELSE /\ field \in DOMAIN memory.conversation_context
             /\ memory.conversation_context[field]
                    = WrittenValue(added[SetMax(Writers(field))], field)

\* C11 witness: the customer's email is returned by get_contextual_info
\* although the one interaction that set it is no longer kept.
C11_Witness ==
    /\ Writers("customer_email") = {1}
    /\ Len(added) = 6
    /\ \A i \in 1..Len(memory.recent_interactions) :
          ~Writes(memory.recent_interactions[i], "customer_email")
    /\ last_call.op = "get_contextual_info"
    /\ "customer_email" \in DOMAIN last_call.result
    /\ last_call.result["customer_email"] = added[1].entities[1].value

\* C13: what get_contextual_info returns holds 'referenced_order' exactly
\* when the query contains an order-reference phrase and the context has a
\* last_order_lookup, and 'referenced_products' exactly when the query
\* contains a product-reference phrase and the context has recent_products;
\* the values are the context's; a query with no such phrase gets neither.
C13_ReferenceKeysIffPhraseAndSnapshot ==
    last_call.op = "get_contextual_info" =>
        LET context == memory.conversation_context
            result  == last_call.result
            order_reference   == _is_order_reference(last_call.query)
            product_reference == _is_product_reference(last_call.query)
        IN  /\ "referenced_order" \in DOMAIN result
                <=> (order_reference /\ "last_order_lookup" \in DOMAIN context)
            /\ "referenced_products" \in DOMAIN result
                <=> (product_reference /\ "recent_products" \in DOMAIN context)
            /\ "referenced_order" \in DOMAIN result
                => result["referenced_order"] = context["last_order_lookup"]
            /\ "referenced_products" \in DOMAIN result
                => result["referenced_products"] = context["recent_products"]
            /\ (~order_reference /\ ~product_reference)
                => DOMAIN result \cap {"referenced_order", "referenced_products"} = {}

\* C13 witness: the context holds an order and products, and a query that
\* refers to the order only is answered with the order and not the products.
C13_Witness ==
    /\ last_call.op = "get_contextual_info"
    /\ last_call.query = "What about MY ORDER"
    /\ {"last_order_lookup", "recent_products"} \subseteq DOMAIN memory.conversation_context
    /\ "referenced_order" \in DOMAIN last_call.result
    /\ "referenced_products" \notin DOMAIN last_call.result

\* The product identifiers in the key_info of an interaction, under either
\* of the two keys that carry them.
ProductIdentifiers(interaction) ==
    IF dict_get(interaction.key_info, "products", <<>>) # <<>>
    THEN interaction.key_info["products"]
    ELSE dict_get(interaction.key_info, "products_mentioned", <<>>)

\* The follow-up question was asked and the memory holds a last interaction.
AskedAfterAdd ==
    /\ last_call.op = "get_contextual_info"
    /\ last_call.query = ThoseProductsQuery
    /\ added # <<>>

C16_EntitiesBeforeRegex ==
    LET email_from_text == extract_email_from_text(last.query)
        order_from_text == extract_order_number_from_text(last.query)
    IN  /\ Truthy(last.entities.Email)
               => R.email_from_current = last.entities.Email
        /\ (~Truthy(last.entities.Email) /\ Truthy(email_from_text))
               => R.email_from_current = email_from_text
        /\ Truthy(last.entities.OrderNumber)
               => R.order_from_current = last.entities.OrderNumber
        /\ (~Truthy(last.entities.OrderNumber) /\ Truthy(order_from_text))
               => R.order_from_current = order_from_text
        /\ R.email_from_current # last.entities.Email
               => ~Truthy(last.entities.Email)
        /\ R.order_from_current # last.entities.OrderNumber
               => ~Truthy(last.entities.OrderNumber)

\* C16 witness: the text holds an email and an order number, the entities
\* hold other ones, and the order looked up is the entities'.
C16_Witness ==
    /\ last.query = "Check order #W001 for john.doe@example.com"
    /\ last.entities = [Email |-> "ethan.harris@example.com", OrderNumber |-> "#W007"]
    /\ extract_email_from_text(last.query) = "john.doe@example.com"
    /\ extract_order_number_from_text(last.query) = "#W001"
    /\ R.lookups = <<[email |-> "ethan.harris@example.com", order_number |-> "#W007",
                      order |-> find_order("ethan.harris@example.com", "#W007")]>>

\* The context of the session before and after the last call of
\* process_query, and the interaction that call recorded (if it did).
SnapshotBefore == turn.memory_before.conversation_context

SnapshotAfter == memory.conversation_context

Recorded == turn.number > 0 /\ memory # turn.memory_before

RecordOfTurn == memory.recent_interactions[Len(memory.recent_interactions)]

\* The parts of last_order_lookup that key_info has a field for.
OrderLookupFields == {"order_number", "customer_name", "products", "status"}

\* C12: add_interaction replaces no value of the context by a null or empty
\* one.  A category whose field the new interaction does not carry (Email in
\* the entities; the product identifiers or the promotion code in key_info)
\* is after the call what it was before, and so is each part of
\* last_order_lookup (order_number, customer_name, products, status) that
\* key_info has no field for.
C12_AbsentFieldsKeepSnapshot ==
    Recorded =>
        /\ \A field \in SnapshotFields \ {"last_order_lookup"} :
              (field \in DOMAIN SnapshotBefore /\ ~Writes(RecordOfTurn, field))
                  => /\ field \in DOMAIN SnapshotAfter
                     /\ SnapshotAfter[field] = SnapshotBefore[field]
        /\ "last_order_lookup" \in DOMAIN SnapshotBefore
              => /\ "last_order_lookup" \in DOMAIN SnapshotAfter
                 /\ \A part \in OrderLookupFields :
                       part \notin DOMAIN RecordOfTurn.key_info
                           => SnapshotAfter["last_order_lookup"][part]
                                  = SnapshotBefore["last_order_lookup"][part]

\* The entities hold the key.
EntitiesHave(entities, key) == \E i \in 1..Len(entities) : entities[i].key = key

\* The value the entities hold under a key they have.
EntityValue(entities, key) ==
    entities[CHOOSE i \in 1..Len(entities) : entities[i].key = key].value

\* The keys under which determine_intent puts values of the context, and
\* for each the key of get_contextual_info's result it is taken from.
ReferenceKeys == {"ReferencedProducts", "ReferencedOrder"}

ContextKeyOf(key) ==
    IF key = "ReferencedProducts" THEN "referenced_products" ELSE "referenced_order"

\* C17: a value of the context is put into the entities of the turn only
\* when the query is classified as a reference, and never in the place of a
\* value the model's own extraction holds: under ReferencedProducts and
\* ReferencedOrder the entities of the turn hold the model's value when the
\* model gave one, and else nothing or what get_contextual_info returns for
\* the query of the turn.
C17_ContextNeverReplacesExtraction ==
    (turn.number > 0 /\ turn.call.parsed /\ turn.result.intent # "UNKNOWN") =>
        \A key \in ReferenceKeys :
            LET resolved == turn.result.entities
                context_info == get_contextual_info(turn.memory_before, turn.query)
            IN  IF EntitiesHave(turn.call.entities, key)
                THEN /\ EntitiesHave(resolved, key)
                     /\ EntityValue(resolved, key) = EntityValue(turn.call.entities, key)
                ELSE EntitiesHave(resolved, key) =>
                        /\ IF key = "ReferencedProducts"
                           THEN _is_product_reference(turn.query)
                           ELSE _is_order_reference(turn.query)
                        /\ ContextKeyOf(key) \in DOMAIN context_info
                        /\ EntityValue(resolved, key) = context_info[ContextKeyOf(key)]

\* What the order status agent does with the query of the turn when the
\* entities are absent: the regexes alone resolve the email and the order
\* number.
RegexOnlyTurn ==
    process(turn.before, turn.query, [Email |-> None, OrderNumber |-> None],
            turn.extraction)

\* C18: when the model call of determine_intent failed and the text of the
\* query holds an email or an order number, the turn is still a turn of the
\* slot-filling controller: the order status agent is asked, and it stores,
\* asks or completes as it does for that text with no entities.
C18_RegexStillDrivesSlotFilling ==
    (/\ turn.number > 0
     /\ ~turn.call.parsed
     /\ \/ Truthy(extract_email_from_text(turn.query))
        \/ Truthy(extract_order_number_from_text(turn.query)))
    => /\ turn.result.agent_used = "OrderStatusAgent"
       /\ turn.result.sub_reply = RegexOnlyTurn.reply
       /\ state_manager = RegexOnlyTurn.state_manager

\* The kinds of Message with which the coordinator's process reports that
\* it could not write the final response.
GenericErrorKinds == {"processing_issue", "processing_error"}

\* C19: a turn that ends in a generic error message, because
\* OrderStatusAgent.process raised or because the model call that writes
\* the final response failed, leaves the StateManager as it was before the
\* turn.
C19_ErrorTurnKeepsSlotStore ==
    (/\ turn.number > 0
     /\ \/ turn.result.sub_reply = "lookup_error"
        \/ turn.result.message.kind \in GenericErrorKinds)
    => state_manager = turn.before

\* C20: process_query returns a message for every query and every outcome
\* of the model calls of the turn: the text of the final response when the
\* calls that write it succeeded (the consolidated text when only the
\* supervisor's failed), the reply for a failed call, the reply of the
\* except clause (the welcome text for an unknown intent) when a statement
\* raised; no exception leaves process, and whatever the turn was, the
\* session takes a next one.
C20_EveryTurnReturnsAMessage ==
    /\ turn.number > 0 =>
          /\ ~turn.result.message.raised
          /\ turn.returned = turn.result.message.content
          /\ turn.returned # None /\ Len(turn.returned) > 0
          /\ turn.final = "ok" => turn.returned = supervisor_text
          /\ turn.final = "supervisor_failed" => turn.returned = consolidated_text
          /\ turn.final = "failed" =>
                turn.returned = IF turn.result.intent = "UNKNOWN"
                                THEN welcome_msg ELSE processing_issue_msg
          /\ turn.final = "raised" =>
                turn.returned = IF turn.result.intent = "UNKNOWN"
                                THEN welcome_msg ELSE processing_error_msg
    /\ turn.number < MaxTurns => \A query \in SessionQueries, call \in IntentCalls :
          LET next == coordinator_process(state_manager, memory, Len(added) + 1, query,
                                          call, NoExtraction, recommendation_text, "ok")
          IN  /\ ~next.message.raised
              /\ process_query(next.message) = supervisor_text

\* C20 witness: a turn in which a statement of the final response raised is
\* followed by a turn that finds an order and answers.
C20_Witness ==
    /\ turn.number = 2
    /\ turn.previous_kind = "processing_error"
    /\ turn.result.sub_reply = "found"
    /\ turn.returned = supervisor_text

\* The pipeline that results from a new one by the given turns alone.
RECURSIVE Replay(_)
Replay(turns) ==
    IF turns = <<>> THEN NewPipeline
    ELSE LET t == turns[Len(turns)]
         IN  pipeline_turn(Replay(SubSeq(turns, 1, Len(turns) - 1)), t.timestamp,
                           [query |-> t.query, call |-> t.call])

AgentOf(id) == promotion_agents[id].agent

\* Two sessions that each loaded the store before the other saved, and
\* that have both saved a code of their own.
BothSavedUnseen(a, b) ==
    /\ a # b
    /\ promotion_agents[a].started /\ promotion_agents[b].started
    /\ AgentOf(a).saved /\ AgentOf(b).saved
    /\ b \notin AgentOf(a).loaded
    /\ a \notin AgentOf(b).loaded

\* C29: the promo-code file is not protected against concurrent sessions.
\* When two sessions each loaded the file before the other saved and both
\* have generated and saved a code, the file holds the entry of only one of
\* them: the save of the later one has overwritten the entry of the other.
C29_LaterSaveOverwritesTheOther ==
    \A a, b \in SessionIds :
        BothSavedUnseen(a, b)
        => /\ Cardinality(DOMAIN promo_file.codes \cap {a, b}) = 1
           /\ promo_file.codes \in {AgentOf(a).promo_codes, AgentOf(b).promo_codes}

\* Both sessions have saved their code, and the last request wrote the file.
C29_Witness ==
    /\ \E a, b \in SessionIds : BothSavedUnseen(a, b)
    /\ promo.result.reply = "code"
    /\ promo.file_before.exists
    /\ promo.session_id \notin DOMAIN promo.file_before.codes
    /\ DOMAIN promo_file.codes = {promo.session_id}

\* C30: is_early_risers_time is true exactly for the hours 8 and 9, and a
\* request gets a promo code only at those hours.
C30_WindowIsEightToTen ==
    promo.result.reply # "none"
    => /\ is_early_risers_time(promo.current_hour)
          <=> (8 <= promo.current_hour /\ promo.current_hour < 10)
       /\ promo.result.reply \in {"code", "error"}
          => (8 <= promo.current_hour /\ promo.current_hour < 10)
(***************************************************************************)
(* Properties of the coordinator's record of the turns                     *)
(***************************************************************************)

\* C21: every query the coordinator processes appends exactly one record
\* to the ConversationMemory, whatever intent the turn was given: after a
\* turn the records are those of before with one more (trimmed to the most
\* recent), and the new one is the record of this turn's query and intent.
RecordsBefore == turn.memory_before.recent_interactions

RecordsAfter == memory.recent_interactions

C21_EveryTurnAppendsOneRecord ==
    turn.number > 0
    => /\ RecordsAfter # <<>>
       /\ RecordsAfter =
             keep_most_recent(Append(RecordsBefore, RecordsAfter[Len(RecordsAfter)]))
       /\ RecordsAfter[Len(RecordsAfter)].query = turn.query
       /\ RecordsAfter[Len(RecordsAfter)].intent = turn.result.intent
(***************************************************************************)
(* Properties of the free-form extraction and of the stored slots          *)
(***************************************************************************)

\* Neither the coordinator's entities nor the patterns gave this turn an
\* email or an order number.
NothingFromEntitiesOrText ==
    /\ ~Truthy(last.entities.Email)
    /\ ~Truthy(last.entities.OrderNumber)
    /\ ~Truthy(EmailInText[last.query])
    /\ ~Truthy(OrderInText[last.query])

\* extract_order_info was asked in this turn and gave neither value.
ExtractionGaveNothing ==
    /\ R.extraction_calls > 0
    /\ ~Truthy(last.extraction.email)
    /\ ~Truthy(last.extraction.order_number)

\* C22: a turn in which the entities, the patterns and the free-form
\* extraction all give nothing leaves the StateManager as it was; when it
\* was empty, the reply asks for the email address and the order number and
\* shows an example of the format.
C22_NothingResolvedKeepsSlotStore ==
    (ExtractionGaveNothing /\ NothingFromEntitiesOrText)
    => /\ state_manager = last.before
       /\ ~R.cleared
       /\ last.before = StateManager_init
          => /\ R.response.content = instructions_msg
             /\ Contains(R.response.content, "email address")
             /\ Contains(R.response.content, "order number")
             /\ Contains(R.response.content, "#W001")

\* C22 witness: such a turn while an email was stored, which is still
\* stored.
C22_Witness ==
    /\ ExtractionGaveNothing
    /\ NothingFromEntitiesOrText
    /\ Truthy(EmailBefore)
    /\ get_value(state_manager, "email") = EmailBefore

\* C23: across a turn the keys of the StateManager are all kept, or none is
\* left; and a key is gone only after a turn that called clear_state.
C23_KeysKeptOrAllCleared ==
    /\ \/ StateKeys(last.before) \subseteq StateKeys(state_manager)
       \/ StateKeys(state_manager) = {}
    /\ ~(StateKeys(last.before) \subseteq StateKeys(state_manager)) => R.cleared
    /\ \A key \in StateKeys(last.before) \cap StateKeys(state_manager) :
          get_value(state_manager, key) # get_value(last.before, key)
          => ~R.cleared

\* C23 witness: a turn that called clear_state emptied a state that held an
\* order number.
C23_Witness ==
    /\ R.cleared
    /\ Truthy(OrderBefore)
    /\ StateKeys(state_manager) = {}

\* C27: extract_order_info is called at most once in a turn, and only in a
\* turn to which neither the entities nor the patterns gave an email or an
\* order number.
C27_ExtractionIsTheLastResort ==
    /\ R.extraction_calls \in {0, 1}
    /\ R.extraction_calls = 1 => NothingFromEntitiesOrText

\* C27 witness: a turn that asked extract_order_info and got an email and
\* an order number from it.
C27_Witness ==
    /\ R.extraction_calls = 1
    /\ NothingFromEntitiesOrText
    /\ Truthy(last.extraction.email)
    /\ Truthy(last.extraction.order_number)
(***************************************************************************)
(* Properties of clear_context and of the summary                          *)
(***************************************************************************)

\* C24: after clear_context, and until the next add_interaction, the
\* interactions and the context are empty and get_contextual_info returns
\* {} for every query, whatever was recorded before.
C24_ClearContextEmptiesMemory ==
    added = <<>>
    => /\ memory.recent_interactions = <<>>
       /\ memory.conversation_context = EmptyDict
       /\ get_full_context(memory) = [context |-> EmptyDict, recent_interactions |-> <<>>]
       /\ \A query \in ContextQueries : get_contextual_info(memory, query) = EmptyDict
       /\ last_call.op = "get_contextual_info" => last_call.result = EmptyDict

\* C24 witness: clear_context was called on a memory that held records, an
\* email, an order and products, and a question that refers to them was
\* asked since.
C24_Witness ==
    /\ added = <<>>
    /\ last_call.op = "clear_context"
    /\ last_call.memory_before.recent_interactions # <<>>
    /\ {"customer_email", "last_order_lookup", "recent_products"}
          \subseteq DOMAIN last_call.memory_before.conversation_context
    /\ get_contextual_info(last_call.memory_before, ThoseProductsQuery) # EmptyDict
\* The digest of the last 3 of the records added (of all when fewer).
DigestOfLastThree == Join("; ", SummaryParts(LastOf(added, 3)))

\* C28: the recent_interactions_summary is computed from the 3 most recent
\* records only (from all when there are fewer): it is the digest of the
\* last 3 records added, whatever older records the memory holds, and
\* get_contextual_info returns it under recent_interactions_summary.
C28_SummaryOfLastThreeRecords ==
    /\ added # <<>>
       => /\ _get_recent_summary(memory) = DigestOfLastThree
          /\ \A query \in ContextQueries :
                get_contextual_info(memory, query)["recent_interactions_summary"]
                   = DigestOfLastThree
    /\ (last_call.op = "get_contextual_info" /\ added # <<>>)
       => last_call.result["recent_interactions_summary"] = DigestOfLastThree

\* C28 witness: get_contextual_info was asked of a memory with more than 3
\* records, whose fourth from last has a part of its own in a digest.
C28_Witness ==
    /\ last_call.op = "get_contextual_info"
    /\ Len(memory.recent_interactions) > 3
    /\ summary_parts(added[Len(added) - 3]) # <<>>
    /\ last_call.result["recent_interactions_summary"] = DigestOfLastThree
(***************************************************************************)
(* Properties of the lookup: letter case and the "#" of order numbers      *)
(***************************************************************************)

\* The record whose Email and OrderNumber are the given ones up to letter
\* case, 0 when there is none.
CaselessOrder(email, order_number) ==
    LET hits == {i \in 1..Len(orders_data) :
                    /\ StrLower(orders_data[i].Email) = StrLower(email)
                    /\ StrLower(orders_data[i].OrderNumber) = StrLower(order_number)}
    IN  IF hits = {} THEN 0 ELSE SetMin(hits)

\* The query holds the email and the order number of record i, in some
\* letter case.
NamesOrder(query, i) ==
    /\ Contains(StrLower(query), StrLower(orders_data[i].Email))
    /\ Contains(StrLower(query), StrLower(orders_data[i].OrderNumber))

\* C25: the lookup ignores letter case in the email and in the order
\* number: find_order returns the record that matches up to case, and a
\* query that gives the email and the number of an order in another case
\* is resolved and finds it.
C25_LookupIgnoresLetterCase ==
    /\ \A i \in 1..Len(R.lookups) :
          R.lookups[i].order =
             CaselessOrder(R.lookups[i].email, R.lookups[i].order_number)
    /\ \A i \in 1..Len(orders_data) :
          (/\ NamesOrder(last.query, i)
           /\ last.entities = [Email |-> None, OrderNumber |-> None])
          => /\ Found
             /\ R.lookups[1].order = i

\* "W" followed by digits, and nothing else.
BareOrder(v) ==
    /\ Len(v) >= 2
    /\ At(v, 1) = "W"
    /\ \A i \in 2..Len(v) : At(v, i) \in Digits

\* C26: an order number given without "#" has the "#" put in front before
\* it is stored or passed to find_order, whichever source it came from: no
\* turn stores or looks up a bare W-number.
C26_BareOrderNumberIsNormalized ==
    /\ \A i \in 1..Len(R.lookups) : ~BareOrder(R.lookups[i].order_number)
    /\ ~BareOrder(get_value(state_manager, "order_number"))
    /\ (R.reply # "none" /\ BareOrder(last.query))
       => R.order_from_current = "#" \o last.query
(***************************************************************************)
(* Properties of the completion and of the stored values                   *)
(***************************************************************************)

\* The turn resolved both an email and an order number.
ResolvedBoth == Truthy(R.email_from_current) /\ Truthy(R.order_from_current)

\* C31: a turn that resolves both an email and an order number calls
\* find_order once, with exactly those two values, whatever the
\* StateManager holds; unless the order is found, the turn leaves the
\* stored values as they were.
C31_BothAtOnceLooksUpTheNewValues ==
    ResolvedBoth
    => /\ Len(R.lookups) = 1
       /\ R.lookups[1].email = R.email_from_current
       /\ R.lookups[1].order_number = R.order_from_current
       /\ R.lookups[1].order = find_order(R.email_from_current, R.order_from_current)
       /\ ~Found => state_manager = last.before

\* C31 witness: such a turn while another email was stored, which found no
\* order and left the stored email.
C31_Witness ==
    /\ ResolvedBoth
    /\ Truthy(EmailBefore)
    /\ EmailBefore # R.email_from_current
    /\ ~Found
    /\ get_value(state_manager, "email") = EmailBefore
\* The replies that state an email as known without a lookup, and those
\* that state an order number so; the text of each for a value.
EmailStatingReplies == {"stored_email", "invalid_order", "missing_order"}

OrderStatingReplies == {"stored_order", "email_needed", "missing_email"}

StatingText(reply, value) ==
    IF reply = "stored_email" THEN email_msg(value)
    ELSE IF reply = "invalid_order" THEN invalid_order_msg(value)
    ELSE IF reply = "missing_order" THEN missing_order_msg(value)
    ELSE IF reply = "stored_order" THEN order_msg(value)
    ELSE IF reply = "email_needed" THEN email_needed_msg(value)
    ELSE missing_email_msg(value)

\* C32: when the reply of a turn states an email or an order number as
\* known and no lookup was made, the StateManager holds that very value
\* after the turn, under "email" or "order_number".
C32_StatedValueIsStored ==
    /\ R.reply \in EmailStatingReplies
       => /\ Truthy(get_value(state_manager, "email"))
          /\ R.response.content = StatingText(R.reply, get_value(state_manager, "email"))
    /\ R.reply \in OrderStatingReplies
       => /\ Truthy(get_value(state_manager, "order_number"))
          /\ R.response.content =
                StatingText(R.reply, get_value(state_manager, "order_number"))
\* C33: the StateManager never holds both slots: a turn that supplies the
\* second one goes to a lookup and stores nothing.
C33_AtMostOneSlotStored ==
    /\ StateKeys(state_manager) \subseteq {"email", "order_number"}
    /\ ~({"email", "order_number"} \subseteq StateKeys(state_manager))
    /\ (StateKeys(last.before) # {} /\ R.reply \in {"stored_email", "stored_order"})
       => StateKeys(state_manager) = StateKeys(last.before)

\* C33 witness: an order number was stored and the turn supplied an email:
\* the lookup was made, no order found, and the order number alone is
\* still stored.
C33_Witness ==
    /\ StateKeys(last.before) = {"order_number"}
    /\ Truthy(R.email_from_current)
    /\ ~Truthy(R.order_from_current)
    /\ Len(R.lookups) = 1
    /\ ~Found
    /\ StateKeys(state_manager) = {"order_number"}
(***************************************************************************)
(* Properties of the snapshot and of the context of a turn                 *)
(***************************************************************************)

\* last_order_lookup of a context, as a list of none or one.
OrderLookupOf(context) ==
    IF "last_order_lookup" \in DOMAIN context THEN <<context["last_order_lookup"]>>
    ELSE <<>>

\* The order lookup describes record i of orders_data.
DescribesOrder(order_info, i) ==
    /\ order_info.order_number = orders_data[i].OrderNumber
    /\ order_info.customer_name = orders_data[i].CustomerName
    /\ order_info.products = orders_data[i].ProductsOrdered
    /\ order_info.status = orders_data[i].Status

\* C34: last_order_lookup always describes an order that a lookup of this
\* session found: a turn whose sub-agent reply is not the status of a found
\* order neither creates nor alters it, and after a turn that found an
\* order it describes that order.
C34_OrderLookupOnlyFromFoundOrders ==
    turn.number > 0
    => /\ turn.result.sub_reply # "found"
          => OrderLookupOf(SnapshotAfter) = OrderLookupOf(SnapshotBefore)
       /\ turn.result.sub_reply = "found"
          => /\ OrderLookupOf(SnapshotAfter) # <<>>
             /\ \E i \in 1..Len(orders_data) :
                   DescribesOrder(SnapshotAfter["last_order_lookup"], i)
\* A value that is there: neither None nor the empty string.
Present(v) == v \notin {None, ""}

\* C35: every find_order call of a turn has an email and an order number
\* that are there, and no value in the StateManager is None or "": what no
\* source resolved is neither looked up nor stored.
C35_NoPlaceholderLookedUpOrStored ==
    /\ \A i \in 1..Len(R.lookups) :
          Present(R.lookups[i].email) /\ Present(R.lookups[i].order_number)
    /\ \A i \in 1..Len(state_manager.state) : Present(state_manager.state[i].value)
    /\ \A key \in {"email", "order_number"} :
          key \notin StateKeys(state_manager) <=> get_value(state_manager, key) = None

\* C35 witness: the entities held "" for the email, and the lookup of the
\* turn was made with an email that is there.
C35_Witness ==
    /\ last.entities.Email = ""
    /\ Len(R.lookups) = 1
    /\ Present(R.lookups[1].email)
    /\ Present(R.lookups[1].order_number)
\* C36: the context of a turn, handed to the model call of
\* determine_intent and to the one that writes the reply, is computed from
\* the records added before the turn only: it is what get_contextual_info
\* returns on the memory as it was before the turn, for every intent.
C36_ContextIsOfEarlierTurnsOnly ==
    turn.number > 0
    => /\ turn.intent_context_info = get_contextual_info(turn.memory_before, turn.query)
       /\ turn.context_info = get_contextual_info(turn.memory_before, turn.query)
\* The calls of add_interaction since the memory was last empty whose
\* entities held an Email.
EmailTurns ==
    {i \in 1..Len(added) : Present(entities_get(added[i].entities, "Email"))}

\* C37: once a recorded turn's entities held an Email, every later
\* get_contextual_info gives customer_email, equal to the Email of the most
\* recent such turn, whatever the query, until clear_context.
C37_CustomerEmailIsTheLatestEmail ==
    last_call.op = "get_contextual_info" /\ EmailTurns # {}
    => /\ "customer_email" \in DOMAIN last_call.result
       /\ last_call.result["customer_email"] =
              entities_get(added[SetMax(EmailTurns)].entities, "Email")

C37_Witness ==
    /\ last_call.op = "get_contextual_info"
    /\ last_call.query = "hello"
    /\ Len(added) = 3
    /\ EmailTurns = {1, 2}
    /\ entities_get(added[1].entities, "Email") = "john.doe@example.com"
    /\ last_call.result["customer_email"] = "jane.smith@example.com"
\* The session has a code in the promo_codes of its agent.
HasCode(id) ==
    /\ promotion_agents[id].started
    /\ id \in DOMAIN AgentOf(id).promo_codes

\* A request of session id that reached generate_promo_code.
Generates(id) ==
    /\ clock' = clock + 1
    /\ promo'.session_id = id
    /\ promo'.result.reply \in {"code", "error"}

PlacesOf(sm, key) == {i \in 1..Len(sm.state) : sm.state[i].key = key}

\* C39: add_entry with a key that is empty or None raises ValueError and
\* leaves the entries and the markdown rendering as they were; with a
\* non-empty key it sets the value of the key, replacing the one that was
\* there, so that every key has one entry and get_value returns the value
\* last set for it.
C39_AddEntryRejectsOrOverwrites ==
    /\ \A key \in EntryKeys : Cardinality(PlacesOf(state_manager, key)) <= 1
    /\ entry_call.op = "add_entry" /\ ~Present(entry_call.key)
       => /\ entry_call.raised
          /\ state_manager = entry_call.before
    /\ entry_call.op = "add_entry" /\ Present(entry_call.key)
       => /\ ~entry_call.raised
          /\ get_value(state_manager, entry_call.key) = entry_call.value
          /\ \A key \in EntryKeys \ {entry_call.key} :
                get_value(state_manager, key) = get_value(entry_call.before, key)
          /\ state_manager.state_md = to_markdown(state_manager.state)
    /\ entry_call.op = "get_value"
       => entry_call.returned =
             IF PlacesOf(state_manager, entry_call.key) = {} THEN None
             ELSE state_manager.state[SetMax(PlacesOf(state_manager, entry_call.key))].value

\* An email set again while an order number is stored after it.
C39_Witness ==
    /\ entry_call.op = "add_entry"
    /\ entry_call.key = "email"
    /\ entry_call.value = ""
    /\ get_value(entry_call.before, "email") = "john.doe@example.com"
    /\ get_value(state_manager, "email") = ""
    /\ Len(state_manager.state) = 2
    /\ state_manager.state[2].key = "order_number"

====
